---- MODULE Spec2Model ----
(***************************************************************************)
(* Booking lifecycle of the luggage-pickup backend: the request handlers   *)
(* of bookingController.js and adminBookingController.js over the Booking, *)
(* Driver, Hotel and Customer collections, with the Socket.IO relay of     *)
(* websocketService.js.  A handler is a function from the stored           *)
(* collections and the request to the response it sends and the            *)
(* collections it leaves behind; serving a request is one action.          *)
(*                                                                         *)
(* Strings whose format the code inspects (names, phones, e-mails) are     *)
(* sequences of one-character strings.  Dates are abstracted to Null/Now.  *)
(* An absent request field (undefined) is a field missing from the         *)
(* request record's DOMAIN.                                                *)
(***************************************************************************)
EXTENDS Integers, Sequences, FiniteSets, TLC

VARIABLES bookings, customers, drivers, hotels, io, inflight

vars == <<bookings, customers, drivers, hotels, io, inflight>>

(***************************************************************************)
(* Bounds of the model.                                                    *)
(***************************************************************************)
MaxBookings == 1
NumDrivers == 2
NumAdmins == 2
MaxFiles == 6

(***************************************************************************)
(* Identifiers.  0 is the null reference; an id above the range resolves   *)
(* to no document.                                                         *)
(***************************************************************************)
NoRef == 0
Null == "null"
Now == "now"

DriverIds == 1..NumDrivers
AdminIds == 1..NumAdmins
BookingIds == 1..(MaxBookings + 1)
HotelIds == 1..2

validStatuses == <<"pending", "confirmed", "assigned", "in_progress", "completed", "cancelled">>

StatusSet == {validStatuses[i] : i \in 1..Len(validStatuses)}

\* the enum of the schema's status path
statusEnum == {"pending", "confirmed", "assigned", "in_progress", "completed", "cancelled"}

(***************************************************************************)
(* upload.array('images', 5): at most five files in the images field.      *)
(***************************************************************************)
UploadLimit == 5

(***************************************************************************)
(* Character-sequence helpers.                                             *)
(***************************************************************************)
Digits == {"0", "1", "2", "3", "4", "5", "6", "7", "8", "9"}

RECURSIVE TrimLeft(_)
TrimLeft(s) == IF s # <<>> /\ Head(s) = " " THEN TrimLeft(Tail(s)) ELSE s

RECURSIVE TrimRight(_)
TrimRight(s) ==
  IF s # <<>> /\ s[Len(s)] = " " THEN TrimRight(SubSeq(s, 1, Len(s) - 1)) ELSE s

Trim(s) == TrimRight(TrimLeft(s))

\* String.prototype.toLowerCase on the letters
upperCase == <<"A", "B", "C", "D", "E", "F", "G", "H", "I", "J", "K", "L", "M",
               "N", "O", "P", "Q", "R", "S", "T", "U", "V", "W", "X", "Y", "Z">>

lowerCase == <<"a", "b", "c", "d", "e", "f", "g", "h", "i", "j", "k", "l", "m",
               "n", "o", "p", "q", "r", "s", "t", "u", "v", "w", "x", "y", "z">>

toLowerCase(s) ==
  [k \in 1..Len(s) |->
     IF \E i \in 1..Len(upperCase) : upperCase[i] = s[k]
     THEN lowerCase[CHOOSE i \in 1..Len(upperCase) : upperCase[i] = s[k]]
     ELSE s[k]]

\* the setters of an e-mail path (trim: true, lowercase: true)
emailSetter(v) == toLowerCase(Trim(v))

Has(r, f) == f \in DOMAIN r

\* !r[f] for a string field: undefined or the empty string
Falsy(r, f) == ~Has(r, f) \/ r[f] = <<>>

\* !r[f] || r[f].trim().length === 0
Blank(r, f) == Falsy(r, f) \/ Trim(r[f]) = <<>>

(***************************************************************************)
(* Request values used by the specifications.                              *)
(***************************************************************************)
PhoneLocal == <<"0", "9", "1", "2", "3", "4", "5", "6", "7", "8">>
PhoneIntl == <<"+", "8", "4", "9", "1", "2", "3", "4", "5", "6", "7", "8">>
PhoneOther == <<"0", "9", "8", "7", "6", "5", "4", "3", "2", "1">>
PhoneBad == <<"1", "2", "3">>
NameAn == <<"A", "n">>
NameBo == <<"B", "o">>
NameA == <<"A">>
Time14 == <<"1", "4", ":", "0", "0">>
Addr == <<"1", " ", "S", "t">>
Dev1 == <<"d", "1">>
MailOk == <<"a", "@", "b", ".", "c">>
MailBad == <<"a", "b">>

(***************************************************************************)
(* phoneValidator.js.  libphonenumber-js is an external library: the model *)
(* decides the Vietnamese mobile plan only (+84 or a leading 0, then nine  *)
(* digits starting 3, 5, 7, 8 or 9), which covers the request values above.*)
(***************************************************************************)
AllDigits(s) == \A i \in 1..Len(s) : s[i] \in Digits

VNMobile(national) ==
  /\ Len(national) = 9
  /\ AllDigits(national)
  /\ national[1] \in {"3", "5", "7", "8", "9"}

isValidPhoneNumber(p, country) ==
  IF p # <<>> /\ p[1] = "+"
  THEN Len(p) = 12 /\ SubSeq(p, 1, 3) = <<"+", "8", "4">> /\ VNMobile(SubSeq(p, 4, 12))
  ELSE country = "VN" /\ Len(p) = 10 /\ p[1] = "0" /\ VNMobile(SubSeq(p, 2, 10))

isValidPhone(phoneNumber) ==
  LET trimmedPhone == Trim(phoneNumber)
      country == IF trimmedPhone # <<>> /\ trimmedPhone[1] = "+" THEN "none" ELSE "VN"
  IN  phoneNumber # <<>> /\ isValidPhoneNumber(trimmedPhone, country)

\* /^0\d{9,10}$/ of the Customer schema
customerPhoneRegex(v) == Len(v) \in {10, 11} /\ v[1] = "0" /\ AllDigits(v)

\* /^[^\s@]+@[^\s@]+\.[^\s@]+$/
emailRegex(v) ==
  \E i \in 2..Len(v) :
    /\ v[i] = "@"
    /\ \A k \in 1..Len(v) : k # i => v[k] \notin {"@", " "}
    /\ \E k \in (i + 2)..(Len(v) - 1) : v[k] = "."

(***************************************************************************)
(* numberOfBags is a JavaScript number; the model counts it in tenths, so  *)
(* 30 is 3 and 55 is 5.5.                                                  *)
(***************************************************************************)
Unit == 10

parseInt(n) == n \div Unit

\* the range test without its lower bound
bagsOutOfRangeUpperOnly(n) == LET bags == parseInt(n) IN bags > 5

\* isNaN(bags) || bags < 1 || bags > 5
bagsOutOfRange(n) == LET bags == parseInt(n) IN bags < 1 \/ bags > 5

(***************************************************************************)
(* Booking.validateBooking (models/Booking.js, current schema).            *)
(***************************************************************************)
bookingTypes == {"Airport", "Other"}

Err(cond, msg) == IF cond THEN <<msg>> ELSE <<>>

validateBooking(data) ==
     Err(Blank(data, "fullName"), "Full name is required")
  \o (IF Blank(data, "phoneNumber")
      THEN <<"Phone number is required">>
      ELSE Err(~isValidPhone(data.phoneNumber), "Invalid phone number format"))
  \o Err(~Has(data, "hotel") \/ data.hotel = NoRef, "Hotel is required")
  \o (IF ~Has(data, "bookingType") \/ data.bookingType = ""
      THEN <<"Booking type is required">>
      ELSE Err(data.bookingType \notin bookingTypes,
               "Booking type must be either Airport or Other"))
  \o (IF Has(data, "bookingType") /\ data.bookingType = "Airport"
      THEN Err(Blank(data, "arrivalTime"), "Arrival time is required for Airport bookings")
      ELSE IF Has(data, "bookingType") /\ data.bookingType = "Other"
      THEN Err(Blank(data, "pickupLocationAddress"),
               "Pickup location address is required for Other bookings")
      ELSE <<>>)
  \o Err(~Has(data, "numberOfBags") \/ bagsOutOfRange(data.numberOfBags),
         "Number of bags must be between 1 and 5")
  \o Err(Blank(data, "deviceId"), "Device ID is required")

(***************************************************************************)
(* Collections.  bookings and customers are sequences in insertion order;  *)
(* a booking's id is its index.                                            *)
(***************************************************************************)
BookingExists(id) == id \in 1..Len(bookings)

DriverExists(d) == d \in DriverIds /\ drivers[d].exists

HotelExists(h) == h \in HotelIds /\ hotels[h].exists

Range(s) == {s[i] : i \in 1..Len(s)}

\* Requests the server is handling: a handler that has awaited a read and
\* not yet written holds what it read.  NumRequests handlers may overlap.
NumRequests == 2
Slots == 1..NumRequests
Idle == [op |-> "idle"]

Init ==
  /\ bookings = <<>>
  /\ customers = <<>>
  /\ drivers = [d \in DriverIds |-> [exists |-> TRUE, isActive |-> TRUE, isVerified |-> d = 1]]
  /\ hotels = [h \in HotelIds |-> [exists |-> TRUE, isActive |-> (h = 1)]]
  /\ io = FALSE
  /\ inflight = [s \in Slots |-> Idle]

(***************************************************************************)
(* HTTP responses.  status carries the booking status quoted in the        *)
(* message (or currentStatus) of an error, emitted the events the request  *)
(* published.                                                              *)
(***************************************************************************)
Response(op, id, actor, code, msg, status, emitted) ==
  [op |-> op, id |-> id, actor |-> actor, code |-> code, msg |-> msg,
   status |-> status, errors |-> <<>>, emitted |-> emitted]

(***************************************************************************)
(* A handler is a function of the stored collections and the request: its  *)
(* result is the response it sends and the collections it leaves behind.   *)
(***************************************************************************)
Result(response, bks, custs) == [resp |-> response, bookings |-> bks, customers |-> custs]

\* a response sent before anything was written
Reject(op, id, actor, code, msg, status) ==
  Result(Response(op, id, actor, code, msg, status, <<>>), bookings, customers)

\* a 400 carrying the list of validation messages
ValidationError(op, id, actor, errors) ==
  [Response(op, id, actor, 400, "Validation failed", "", <<>>) EXCEPT !.errors = errors]

RejectErrors(op, id, actor, errors) ==
  Result(ValidationError(op, id, actor, errors), bookings, customers)

(***************************************************************************)
(* websocketService.js                                                     *)
(***************************************************************************)
initializeWebSocket ==
  /\ ~io
  /\ io' = TRUE
  /\ UNCHANGED <<bookings, customers, drivers, hotels, inflight>>

\* an emitter that holds the event for delivery when the relay is not up
emitBookingPickedUpQueued(booking, id) ==
  <<[name |-> "booking:picked-up", bookingId |-> id, status |-> booking.status]>>

\* getIO throws while io is null; the emitters catch and log
emitBookingPickedUp(booking, id) ==
  IF io
  THEN <<[name |-> "booking:picked-up", bookingId |-> id, status |-> booking.status]>>
  ELSE <<>>

emitBookingCompleted(booking, id) ==
  IF io
  THEN <<[name |-> "booking:completed", bookingId |-> id, status |-> booking.status]>>
  ELSE <<>>

(***************************************************************************)
(* middleware/auth.js: protect.  The bearer token names driver d.          *)
(***************************************************************************)
protect(d) ==
  IF ~DriverExists(d) THEN [code |-> 401, msg |-> "Driver not found"]
  ELSE IF ~drivers[d].isActive
  THEN [code |-> 403, msg |-> "Your account has been deactivated"]
  ELSE [code |-> 200, msg |-> ""]

(***************************************************************************)
(* bookingController.js: driver operations                                 *)
(***************************************************************************)
\* the ownership test without its null case
assignedToAnother(booking, d) == booking.assignedDriver # NoRef /\ booking.assignedDriver # d

\* the ownership test both driver handlers make before anything else
notAssignedTo(booking, d) == booking.assignedDriver = NoRef \/ booking.assignedDriver # d

\* markAsPickedUp without its status test
markAsPickedUpAnyStatus(id, d) ==
  LET op == "markAsPickedUp"
      auth == protect(d)
  IN
  IF auth.code # 200 THEN Reject(op, id, d, auth.code, auth.msg, "")
  ELSE IF ~BookingExists(id) THEN Reject(op, id, d, 404, "Booking not found", "")
  ELSE IF notAssignedTo(bookings[id], d)
  THEN Reject(op, id, d, 403, "This booking is not assigned to you", "")
  ELSE
    LET updatedBooking == [bookings[id] EXCEPT !.isPickedUp = TRUE,
                                               !.pickedUpAt = Now,
                                               !.status = "in_progress"]
        out == emitBookingPickedUp(updatedBooking, id)
    IN
    Result(Response(op, id, d, 200, "Booking marked as picked up successfully", "", out),
           [bookings EXCEPT ![id] = updatedBooking], customers)

markAsPickedUp(id, d) ==
  LET op == "markAsPickedUp"
      auth == protect(d)
  IN
  IF auth.code # 200 THEN Reject(op, id, d, auth.code, auth.msg, "")
  ELSE IF ~BookingExists(id) THEN Reject(op, id, d, 404, "Booking not found", "")
  ELSE IF notAssignedTo(bookings[id], d)
  THEN Reject(op, id, d, 403, "This booking is not assigned to you", "")
  ELSE IF bookings[id].status # "assigned"
  THEN Reject(op, id, d, 400, "Cannot mark as picked up. Current status", bookings[id].status)
  ELSE
    LET updatedBooking == [bookings[id] EXCEPT !.isPickedUp = TRUE,
                                               !.pickedUpAt = Now,
                                               !.status = "in_progress"]
        out == emitBookingPickedUp(updatedBooking, id)
    IN
    Result(Response(op, id, d, 200, "Booking marked as picked up successfully", "", out),
           [bookings EXCEPT ![id] = updatedBooking], customers)

\* only the first uploaded file kept
completionImagePathsFirst(n) == IF n = 0 THEN <<>> ELSE <<1>>

\* req.files after upload.array('images', 5): n files, stored as references 1..n
completionImagePaths(n) == [i \in 1..n |-> i]

\* n is the number of files the request uploads; upload.array('images', 5)
\* hands a request with more than five to the error handler (500) before the
\* handler runs
markAsCompleted(id, d, n) ==
  LET op == "markAsCompleted"
      auth == protect(d)
  IN
  IF auth.code # 200 THEN Reject(op, id, d, auth.code, auth.msg, "")
  ELSE IF n > UploadLimit THEN Reject(op, id, d, 500, "Internal server error", "")
  ELSE IF ~BookingExists(id) THEN Reject(op, id, d, 404, "Booking not found", "")
  ELSE IF notAssignedTo(bookings[id], d)
  THEN Reject(op, id, d, 403, "This booking is not assigned to you", "")
  ELSE IF bookings[id].status # "in_progress"
  THEN Reject(op, id, d, 400, "Cannot mark as completed. Please mark as picked up first",
              bookings[id].status)
  ELSE
    LET images == completionImagePaths(n)
        updatedBooking == [bookings[id] EXCEPT !.status = "completed",
                                               !.completedAt = Now,
                                               !.completionImages = images]
        out == emitBookingCompleted(updatedBooking, id)
    IN
    Result(Response(op, id, d, 200, "Booking marked as completed successfully", "", out),
           [bookings EXCEPT ![id] = updatedBooking], customers)

(***************************************************************************)
(* The Booking schema (models/Booking.js): setters and validators that     *)
(* document.save() runs.  Stored documents carry every path; an unset      *)
(* string path is the empty sequence.                                      *)
(***************************************************************************)
trimmedPaths == {"fullName", "phoneNumber", "email", "pickupLocationAddress",
                 "arrivalTime", "deviceId", "notes"}

\* assignment to a path: the trim setter of string paths
castPath(p, v) ==
  IF p = "email" THEN emailSetter(v) ELSE IF p \in trimmedPaths THEN Trim(v) ELSE v

requiredPaths == {"fullName", "phoneNumber", "hotel", "bookingType",
                  "pickupLocationAddress", "arrivalTime", "numberOfBags", "deviceId"}

requiredOk(doc, p) ==
  CASE p = "fullName" -> doc.fullName # <<>>
    [] p = "phoneNumber" -> doc.phoneNumber # <<>>
    [] p = "hotel" -> doc.hotel # NoRef
    [] p = "bookingType" -> doc.bookingType # ""
    [] p = "pickupLocationAddress" ->
         doc.bookingType = "Other" => doc.pickupLocationAddress # <<>>
    [] p = "arrivalTime" -> doc.bookingType = "Airport" => doc.arrivalTime # <<>>
    [] p = "deviceId" -> doc.deviceId # <<>>
    [] OTHER -> TRUE

pathOk(doc, p) ==
  /\ requiredOk(doc, p)
  /\ CASE p = "phoneNumber" -> isValidPhone(doc.phoneNumber)
       [] p = "email" -> doc.email = <<>> \/ emailRegex(doc.email)
       [] p = "bookingType" -> doc.bookingType \in bookingTypes
       [] p = "numberOfBags" -> doc.numberOfBags >= 1 * Unit /\ doc.numberOfBags <= 5 * Unit
       [] p = "status" -> doc.status \in statusEnum
       [] OTHER -> TRUE

\* document.save(): validators of the modified paths, and (unless
\* validateModifiedOnly) the required check of every required path
saveOk(doc, modified, validateModifiedOnly) ==
  /\ \A p \in modified : pathOk(doc, p)
  /\ validateModifiedOnly \/ \A p \in requiredPaths : requiredOk(doc, p)

(***************************************************************************)
(* bookingController.js: public operations on an existing booking          *)
(***************************************************************************)
\* PATCH /api/booking/:id/status
updateBookingStatus(id) ==
  LET op == "updateBookingStatus" IN
  IF ~BookingExists(id) THEN Reject(op, id, NoRef, 404, "Booking not found", "")
  ELSE
    LET booking == [bookings[id] EXCEPT !.isPickedUp = TRUE] IN
    IF ~saveOk(booking, {"isPickedUp"}, FALSE)
    THEN Reject(op, id, NoRef, 500, "Failed to update booking status", "")
    ELSE
      Result(Response(op, id, NoRef, 200, "", "", <<>>),
           [bookings EXCEPT ![id] = booking], customers)

\* cancelBooking without its status test
cancelBookingAnyStatus(id) ==
  LET op == "cancelBooking" IN
  IF ~BookingExists(id) THEN Reject(op, id, NoRef, 404, "Booking not found", "")
  ELSE
    Result(Response(op, id, NoRef, 200, "Booking cancelled successfully", "", <<>>),
           [bookings EXCEPT ![id] = [bookings[id] EXCEPT !.status = "cancelled"]], customers)

cancelBooking(id) ==
  LET op == "cancelBooking" IN
  IF ~BookingExists(id) THEN Reject(op, id, NoRef, 404, "Booking not found", "")
  ELSE IF bookings[id].status # "pending"
  THEN Reject(op, id, NoRef, 400, "Cannot cancel booking. Only pending bookings can be cancelled.",
              bookings[id].status)
  ELSE
    LET booking == [bookings[id] EXCEPT !.status = "cancelled"] IN
    IF ~saveOk(booking, {"status"}, FALSE)
    THEN Reject(op, id, NoRef, 500, "Failed to cancel booking", "")
    ELSE
      Result(Response(op, id, NoRef, 200, "Booking cancelled successfully", "", <<>>),
           [bookings EXCEPT ![id] = booking], customers)

(***************************************************************************)
(* adminBookingController.js.  The routes sit behind protectAdmin; a is    *)
(* the authenticated admin (req.admin.id), which only confirmBooking reads.*)
(***************************************************************************)
\* confirmBooking that does not record who confirmed
confirmBookingUnsigned(id, a) ==
  LET op == "confirmBooking" IN
  IF ~BookingExists(id) THEN Reject(op, id, a, 404, "Booking not found", "")
  ELSE IF bookings[id].status # "pending"
  THEN Reject(op, id, a, 400, "Booking is already", bookings[id].status)
  ELSE
    LET booking == [bookings[id] EXCEPT !.status = "confirmed", !.confirmedAt = Now] IN
    Result(Response(op, id, a, 200, "Booking confirmed successfully", "", <<>>),
           [bookings EXCEPT ![id] = booking], customers)

confirmBooking(id, a) ==
  LET op == "confirmBooking" IN
  IF ~BookingExists(id) THEN Reject(op, id, a, 404, "Booking not found", "")
  ELSE IF bookings[id].status # "pending"
  THEN Reject(op, id, a, 400, "Booking is already", bookings[id].status)
  ELSE
    LET booking == [bookings[id] EXCEPT !.status = "confirmed",
                                        !.confirmedBy = a,
                                        !.confirmedAt = Now]
    IN
    IF ~saveOk(booking, {"status", "confirmedBy", "confirmedAt"}, FALSE)
    THEN Reject(op, id, a, 500, "Failed to confirm booking", "")
    ELSE
      Result(Response(op, id, a, 200, "Booking confirmed successfully", "", <<>>),
           [bookings EXCEPT ![id] = booking], customers)

\* assignDriver without its isActive test
assignDriverInactive(id, body) ==
  LET op == "assignDriver" IN
  IF ~Has(body, "driverId") \/ body.driverId = NoRef
  THEN Reject(op, id, NoRef, 400, "Driver ID is required", "")
  ELSE IF ~DriverExists(body.driverId) THEN Reject(op, id, NoRef, 404, "Driver not found", "")
  ELSE IF ~BookingExists(id) THEN Reject(op, id, NoRef, 404, "Booking not found", "")
  ELSE
    Result(Response(op, id, NoRef, 200, "Driver assigned successfully", "", <<>>),
           [bookings EXCEPT ![id] = [bookings[id] EXCEPT !.assignedDriver = body.driverId,
                                              !.status = "assigned"]], customers)

assignDriver(id, body) ==
  LET op == "assignDriver" IN
  IF ~Has(body, "driverId") \/ body.driverId = NoRef
  THEN Reject(op, id, NoRef, 400, "Driver ID is required", "")
  ELSE IF ~DriverExists(body.driverId) THEN Reject(op, id, NoRef, 404, "Driver not found", "")
  ELSE IF ~drivers[body.driverId].isActive
  THEN Reject(op, id, NoRef, 400, "Driver is not active", "")
  ELSE IF ~BookingExists(id) THEN Reject(op, id, NoRef, 404, "Booking not found", "")
  ELSE
    LET booking == [bookings[id] EXCEPT !.assignedDriver = body.driverId,
                                        !.status = "assigned"]
    IN
    IF ~saveOk(booking, {"assignedDriver", "status"}, FALSE)
    THEN Reject(op, id, NoRef, 500, "Failed to assign driver", "")
    ELSE
      Result(Response(op, id, NoRef, 200, "Driver assigned successfully", "", <<>>),
           [bookings EXCEPT ![id] = booking], customers)

\* the admin status update without the isPickedUp side effect
adminUpdateBookingStatusOnly(id, body) ==
  LET op == "adminUpdateBookingStatus" IN
  IF ~Has(body, "status") \/ body.status = ""
  THEN Reject(op, id, NoRef, 400, "Status is required", "")
  ELSE IF body.status \notin StatusSet THEN Reject(op, id, NoRef, 400, "Invalid status", "")
  ELSE IF ~BookingExists(id) THEN Reject(op, id, NoRef, 404, "Booking not found", "")
  ELSE
    Result(Response(op, id, NoRef, 200, "Booking status updated successfully", "", <<>>),
           [bookings EXCEPT ![id] = [bookings[id] EXCEPT !.status = body.status]], customers)

\* the admin's status update stamping completedAt when it sets completed
adminUpdateBookingStatusStamped(id, body) ==
  LET op == "adminUpdateBookingStatus" IN
  IF ~Has(body, "status") \/ body.status = ""
  THEN Reject(op, id, NoRef, 400, "Status is required", "")
  ELSE IF body.status \notin StatusSet THEN Reject(op, id, NoRef, 400, "Invalid status", "")
  ELSE IF ~BookingExists(id) THEN Reject(op, id, NoRef, 404, "Booking not found", "")
  ELSE
    Result(Response(op, id, NoRef, 200, "Booking status updated successfully", "", <<>>),
           [bookings EXCEPT ![id] =
              [bookings[id] EXCEPT
                 !.status = body.status,
                 !.isPickedUp = IF body.status = "completed" THEN TRUE
                                ELSE bookings[id].isPickedUp,
                 !.completedAt = IF body.status = "completed" THEN Now
                                 ELSE bookings[id].completedAt]],
           customers)

\* the admin's status update making isPickedUp follow the status written
adminUpdateBookingStatusMirrored(id, body) ==
  LET op == "adminUpdateBookingStatus" IN
  IF ~Has(body, "status") \/ body.status = ""
  THEN Reject(op, id, NoRef, 400, "Status is required", "")
  ELSE IF body.status \notin StatusSet THEN Reject(op, id, NoRef, 400, "Invalid status", "")
  ELSE IF ~BookingExists(id) THEN Reject(op, id, NoRef, 404, "Booking not found", "")
  ELSE
    Result(Response(op, id, NoRef, 200, "Booking status updated successfully", "", <<>>),
           [bookings EXCEPT ![id] =
              [bookings[id] EXCEPT !.status = body.status,
                                   !.isPickedUp = (body.status = "completed")]],
           customers)

\* PATCH /api/admin/bookings/:id/status
adminUpdateBookingStatus(id, body) ==
  LET op == "adminUpdateBookingStatus" IN
  IF ~Has(body, "status") \/ body.status = ""
  THEN Reject(op, id, NoRef, 400, "Status is required", "")
  ELSE IF body.status \notin StatusSet THEN Reject(op, id, NoRef, 400, "Invalid status", "")
  ELSE IF ~BookingExists(id) THEN Reject(op, id, NoRef, 404, "Booking not found", "")
  ELSE
    LET booking == [bookings[id] EXCEPT
                      !.status = body.status,
                      !.isPickedUp = IF body.status = "completed" THEN TRUE ELSE bookings[id].isPickedUp]
    IN
    IF ~saveOk(booking, {"status", "isPickedUp"}, FALSE)
    THEN Reject(op, id, NoRef, 500, "Failed to update booking status", "")
    ELSE
      Result(Response(op, id, NoRef, 200, "Booking status updated successfully", "", <<>>),
           [bookings EXCEPT ![id] = booking], customers)

updateBookingNotes(id, body) ==
  LET op == "updateBookingNotes" IN
  IF ~Has(body, "notes") THEN Reject(op, id, NoRef, 400, "Notes field is required", "")
  ELSE IF ~BookingExists(id) THEN Reject(op, id, NoRef, 404, "Booking not found", "")
  ELSE
    LET booking == [bookings[id] EXCEPT !.notes = castPath("notes", body.notes)] IN
    IF ~saveOk(booking, {"notes"}, FALSE)
    THEN Reject(op, id, NoRef, 500, "Failed to update booking notes", "")
    ELSE
      Result(Response(op, id, NoRef, 200, "Booking notes updated successfully", "", <<>>),
           [bookings EXCEPT ![id] = booking], customers)

(***************************************************************************)
(* adminBookingController.js: driver administration                        *)
(***************************************************************************)
toggleDriverActive(d) ==
  LET op == "toggleDriverActive" IN
  IF ~DriverExists(d)
  THEN [resp |-> Response(op, d, NoRef, 404, "Driver not found", "", <<>>), drivers |-> drivers]
  ELSE [resp |-> Response(op, d, NoRef, 200, "", "", <<>>),
        drivers |-> [drivers EXCEPT ![d].isActive = ~drivers[d].isActive]]

(***************************************************************************)
(* The Customer schema (models/Customer.js)                                *)
(***************************************************************************)
customerPathOk(doc, p) ==
  CASE p = "fullName" -> doc.fullName # <<>> /\ Len(doc.fullName) >= 2
    [] p = "email" -> doc.email = <<>> \/ emailRegex(doc.email)
    [] p = "phoneNumber" -> doc.phoneNumber # <<>> /\ customerPhoneRegex(doc.phoneNumber)
    [] OTHER -> TRUE

customerPaths == {"fullName", "email", "phoneNumber", "totalBookings", "lastBookingDate"}

customerSaveOk(doc, modified) == \A p \in modified : customerPathOk(doc, p)

\* Customer.findOne({ phoneNumber }): index of the first match, 0 if none
findCustomer(phoneNumber) ==
  LET hits == {i \in 1..Len(customers) : customers[i].phoneNumber = Trim(phoneNumber)}
  IN  IF hits = {} THEN 0 ELSE CHOOSE i \in hits : \A j \in hits : i <= j

\* a string field of a request body, undefined read as empty
Field(body, f) == IF Has(body, f) THEN body[f] ELSE <<>>

(***************************************************************************)
(* bookingController.js: createBooking                                     *)
(***************************************************************************)
\* String paths a document may lack.  A stored document carries every path,
\* an absent one as the empty sequence; emptyStrings names the paths that
\* hold the empty string '' instead of being absent, which is what decides
\* whether assigning '' to the path modifies the document.
optionalStrings == {"email", "pickupLocationAddress", "arrivalTime"}

newBooking(body) ==
  [fullName |-> Trim(body.fullName),
   phoneNumber |-> Trim(body.phoneNumber),
   email |-> emailSetter(Field(body, "email")),
   hotel |-> body.hotel,
   bookingType |-> IF body.bookingType # "" THEN body.bookingType ELSE "Airport",
   pickupLocationAddress |-> Trim(Field(body, "pickupLocationAddress")),
   arrivalTime |-> Trim(Field(body, "arrivalTime")),
   numberOfBags |-> body.numberOfBags,
   deviceId |-> Trim(body.deviceId),
   status |-> "pending",
   isPickedUp |-> FALSE,
   pickedUpAt |-> Null,
   assignedDriver |-> NoRef,
   notes |-> <<>>,
   confirmedBy |-> NoRef,
   confirmedAt |-> Null,
   completedAt |-> Null,
   completionImages |-> <<>>,
   emptyStrings |-> {p \in optionalStrings : Has(body, p) /\ castPath(p, body[p]) = <<>>}]

bookingPaths == {"fullName", "phoneNumber", "email", "hotel", "bookingType",
                 "pickupLocationAddress", "arrivalTime", "numberOfBags", "deviceId",
                 "status", "isPickedUp", "pickedUpAt", "assignedDriver", "notes",
                 "confirmedBy", "confirmedAt", "completedAt", "completionImages"}

\* the customer upsert of createBooking: the collection after the write and
\* whether customer.save() passed validation
upsertCustomer(body) ==
  LET i == findCustomer(body.phoneNumber) IN
  IF i # 0
  THEN LET customer == [customers[i] EXCEPT
                          !.fullName = Trim(body.fullName),
                          !.email = IF Field(body, "email") # <<>> THEN emailSetter(body.email) ELSE customers[i].email,
                          !.totalBookings = customers[i].totalBookings + 1,
                          !.lastBookingDate = Now]
       IN  [ok |-> customerSaveOk(customer, {"fullName", "email", "totalBookings",
                                             "lastBookingDate"}),
            next |-> [customers EXCEPT ![i] = customer]]
  ELSE LET customer == [fullName |-> Trim(body.fullName),
                        phoneNumber |-> Trim(body.phoneNumber),
                        email |-> emailSetter(Field(body, "email")),
                        totalBookings |-> 1,
                        lastBookingDate |-> Now]
       IN  [ok |-> customerSaveOk(customer, customerPaths),
            next |-> Append(customers, customer)]

\* createBooking without the test of hotel.isActive
createBookingAnyHotel(body) ==
  LET op == "createBooking"
      errors == validateBooking(body)
  IN
  IF errors # <<>> THEN RejectErrors(op, NoRef, NoRef, errors)
  ELSE IF ~HotelExists(body.hotel) THEN Reject(op, NoRef, NoRef, 404, "Hotel not found", "")
  ELSE
    LET upsert == upsertCustomer(body)
        booking == newBooking(body)
    IN
    IF ~upsert.ok THEN RejectErrors(op, NoRef, NoRef, <<"Customer validation failed">>)
    ELSE IF ~saveOk(booking, bookingPaths, FALSE)
    THEN Result(ValidationError(op, NoRef, NoRef, <<"Booking validation failed">>),
                bookings, upsert.next)
    ELSE
      Result(Response(op, Len(bookings) + 1, NoRef, 201, "", "", <<>>),
             Append(bookings, booking), upsert.next)

createBooking(body) ==
  LET op == "createBooking"
      errors == validateBooking(body)
  IN
  IF errors # <<>> THEN RejectErrors(op, NoRef, NoRef, errors)
  ELSE IF ~HotelExists(body.hotel) THEN Reject(op, NoRef, NoRef, 404, "Hotel not found", "")
  ELSE IF ~hotels[body.hotel].isActive
  THEN Reject(op, NoRef, NoRef, 400, "Hotel is not active", "")
  ELSE
    LET upsert == upsertCustomer(body)
        booking == newBooking(body)
    IN
    IF ~upsert.ok THEN RejectErrors(op, NoRef, NoRef, <<"Customer validation failed">>)
    ELSE IF ~saveOk(booking, bookingPaths, FALSE)
    THEN \* booking.save() throws after the customer was written
      Result(ValidationError(op, NoRef, NoRef, <<"Booking validation failed">>),
             bookings, upsert.next)
    ELSE
      Result(Response(op, Len(bookings) + 1, NoRef, 201, "", "", <<>>),
             Append(bookings, booking), upsert.next)

(***************************************************************************)
(* bookingController.js: editBooking                                       *)
(***************************************************************************)
allowedFields == {"fullName", "phoneNumber", "email", "hotel", "bookingType",
                  "pickupLocationAddress", "arrivalTime", "numberOfBags"}

\* { ...doc, ...upd }
merge(doc, upd) ==
  [f \in DOMAIN doc \cup DOMAIN upd |-> IF f \in DOMAIN upd THEN upd[f] ELSE doc[f]]

\* the paths a request may assign, in the order the handlers name them
assignablePaths == <<"fullName", "phoneNumber", "email", "hotel", "bookingType",
                     "pickupLocationAddress", "arrivalTime", "numberOfBags">>

\* doc[p] = upd[p] for each path p the update carries, from the i-th on; every
\* assignment runs the path's setter
RECURSIVE assignFrom(_, _, _)
assignFrom(doc, upd, i) ==
  IF i > Len(assignablePaths) THEN doc
  ELSE LET p == assignablePaths[i] IN
       assignFrom(IF p \in DOMAIN upd
                  THEN [[doc EXCEPT ![p] = castPath(p, upd[p])]
                          EXCEPT !.emptyStrings =
                            IF p \in optionalStrings /\ castPath(p, upd[p]) = <<>>
                            THEN doc.emptyStrings \cup {p}
                            ELSE doc.emptyStrings \ {p}]
                  ELSE doc,
                  upd, i + 1)

\* Object.assign(doc, upd) on a document
assign(doc, upd) == assignFrom(doc, upd, 1)

\* the customer write that follows booking.save() in editBooking
editCustomer(updateData, booking) ==
  IF Field(updateData, "phoneNumber") # <<>> /\ updateData.phoneNumber # booking.phoneNumber
  THEN
    LET i == findCustomer(updateData.phoneNumber)
        fullName == IF Field(updateData, "fullName") # <<>>
                    THEN updateData.fullName ELSE booking.fullName
    IN
    IF i # 0
    THEN LET customer == [customers[i] EXCEPT
                            !.fullName = Trim(fullName),
                            !.email = IF Field(updateData, "email") # <<>>
                                      THEN emailSetter(updateData.email) ELSE customers[i].email]
         IN  [ok |-> customerSaveOk(customer, {"fullName", "email"}),
              next |-> [customers EXCEPT ![i] = customer]]
    ELSE LET customer == [fullName |-> Trim(fullName),
                          phoneNumber |-> Trim(updateData.phoneNumber),
                          email |-> IF Field(updateData, "email") # <<>>
                                    THEN emailSetter(updateData.email) ELSE booking.email,
                          totalBookings |-> 1,
                          lastBookingDate |-> Now]
         IN  [ok |-> customerSaveOk(customer, customerPaths),
              next |-> Append(customers, customer)]
  ELSE IF Field(updateData, "fullName") # <<>> \/ Field(updateData, "email") # <<>>
  THEN
    LET i == findCustomer(booking.phoneNumber) IN
    IF i = 0 THEN [ok |-> TRUE, next |-> customers]
    ELSE LET customer == [customers[i] EXCEPT
                            !.fullName = IF Field(updateData, "fullName") # <<>>
                                         THEN Trim(updateData.fullName) ELSE customers[i].fullName,
                            !.email = IF Field(updateData, "email") # <<>>
                                      THEN emailSetter(updateData.email) ELSE customers[i].email]
         IN  [ok |-> customerSaveOk(customer, {"fullName", "email"}),
              next |-> [customers EXCEPT ![i] = customer]]
  ELSE [ok |-> TRUE, next |-> customers]

editBooking(id, body) ==
  LET op == "editBooking" IN
  IF ~BookingExists(id) THEN Reject(op, id, NoRef, 404, "Booking not found", "")
  ELSE IF bookings[id].status # "pending"
  THEN Reject(op, id, NoRef, 400, "Cannot edit booking. Only pending bookings can be edited.",
              bookings[id].status)
  ELSE
    LET updateData == [f \in DOMAIN body \cap allowedFields |-> body[f]]
        errors == validateBooking(merge(bookings[id], updateData))
        booking == assign(bookings[id], updateData)
        sync == editCustomer(updateData, booking)
    IN
    IF DOMAIN updateData = {} THEN Reject(op, id, NoRef, 400, "No valid fields to update", "")
    ELSE IF errors # <<>> THEN RejectErrors(op, id, NoRef, errors)
    ELSE IF Has(updateData, "hotel") /\ updateData.hotel # NoRef
            /\ updateData.hotel # bookings[id].hotel /\ ~HotelExists(updateData.hotel)
    THEN Reject(op, id, NoRef, 404, "Hotel not found", "")
    ELSE IF Has(updateData, "hotel") /\ updateData.hotel # NoRef
            /\ updateData.hotel # bookings[id].hotel /\ ~hotels[updateData.hotel].isActive
    THEN Reject(op, id, NoRef, 400, "Hotel is not active", "")
    ELSE IF ~saveOk(booking, DOMAIN updateData, FALSE)
    THEN RejectErrors(op, id, NoRef, <<"Booking validation failed">>)
    ELSE IF ~sync.ok
    THEN \* customer.save() throws after the booking was written
      Result(ValidationError(op, id, NoRef, <<"Customer validation failed">>),
             [bookings EXCEPT ![id] = booking], customers)
    ELSE
      Result(Response(op, id, NoRef, 200, "Booking updated successfully", "", <<>>),
             [bookings EXCEPT ![id] = booking], sync.next)

(***************************************************************************)
(* adminBookingController.js: updateBooking (PUT /api/admin/bookings/:id)  *)
(***************************************************************************)
updateBookingErrors(booking, body) ==
  LET finalBookingType == IF Has(body, "bookingType") THEN body.bookingType
                          ELSE booking.bookingType
  IN
     Err(Has(body, "phoneNumber") /\ ~isValidPhone(body.phoneNumber),
         "Invalid phone number format")
  \o Err(Has(body, "bookingType") /\ body.bookingType \notin bookingTypes,
         "Booking type must be either Airport or Other")
  \o (IF finalBookingType = "Airport"
      THEN Err(~Has(body, "arrivalTime") /\ booking.arrivalTime = <<>>,
               "Arrival time is required for Airport bookings")
      ELSE IF finalBookingType = "Other"
      THEN Err(~Has(body, "pickupLocationAddress") /\ booking.pickupLocationAddress = <<>>,
               "Pickup location address is required for Other bookings")
      ELSE <<>>)
  \o Err(Has(body, "numberOfBags") /\ bagsOutOfRange(body.numberOfBags),
         "Number of bags must be between 1 and 5")
  \o Err(Has(body, "status") /\ body.status \notin StatusSet, "Invalid status")
  \o (IF Has(body, "assignedDriver") /\ body.assignedDriver # NoRef
      THEN IF ~DriverExists(body.assignedDriver) THEN <<"Driver not found">>
           ELSE Err(~drivers[body.assignedDriver].isActive, "Driver is not active")
      ELSE <<>>)

updateBookingFields == {"fullName", "phoneNumber", "hotel", "bookingType",
                        "pickupLocationAddress", "arrivalTime", "numberOfBags"}

\* the assignments with the auto-advance testing the status the booking had
\* before the request
updateBookingApplyPrior(booking, body) ==
  LET b1 == assign(booking, [f \in DOMAIN body \cap updateBookingFields |-> body[f]])
      b2 == IF Has(body, "status")
            THEN [b1 EXCEPT !.status = body.status,
                            !.isPickedUp = IF body.status = "completed" THEN TRUE ELSE b1.isPickedUp]
            ELSE b1
      b3 == IF Has(body, "assignedDriver")
            THEN [b2 EXCEPT !.assignedDriver = body.assignedDriver,
                            !.status = IF body.assignedDriver # NoRef /\ ~Has(body, "status")
                                          /\ booking.status \in {"pending", "confirmed"}
                                       THEN "assigned" ELSE b2.status]
            ELSE b2
  IN  IF Has(body, "notes") THEN [b3 EXCEPT !.notes = castPath("notes", body.notes)] ELSE b3

\* lines 526-548: the assignments, in the order the handler makes them
updateBookingApply(booking, body) ==
  LET b1 == assign(booking, [f \in DOMAIN body \cap updateBookingFields |-> body[f]])
      b2 == IF Has(body, "status")
            THEN [b1 EXCEPT !.status = body.status,
                            !.isPickedUp = IF body.status = "completed" THEN TRUE ELSE b1.isPickedUp]
            ELSE b1
      b3 == IF Has(body, "assignedDriver")
            THEN [b2 EXCEPT !.assignedDriver = body.assignedDriver,
                            !.status = IF body.assignedDriver # NoRef
                                          /\ b2.status \in {"pending", "confirmed"}
                                       THEN "assigned" ELSE b2.status]
            ELSE b2
  IN  IF Has(body, "notes") THEN [b3 EXCEPT !.notes = castPath("notes", body.notes)] ELSE b3

\* document.isModified(p): the assignment changed the value of the path
\* (undefined and '' are different values)
isModified(old, new, p) ==
  \/ new[p] # old[p]
  \/ (p \in new.emptyStrings) # (p \in old.emptyStrings)

\* updateBooking that assigns and stores the contact fields before it
\* validates the rest of the request
updateBookingPartial(id, body) ==
  LET op == "updateBooking" IN
  IF ~BookingExists(id) THEN Reject(op, id, NoRef, 404, "Booking not found", "")
  ELSE
    LET errors == updateBookingErrors(bookings[id], body)
        early == assign(bookings[id], [f \in DOMAIN body \cap {"fullName"} |-> body[f]])
        booking == updateBookingApply(bookings[id], body)
    IN
    IF errors # <<>>
    THEN Result(ValidationError(op, id, NoRef, errors), [bookings EXCEPT ![id] = early],
                customers)
    ELSE IF ~saveOk(booking, {p \in bookingPaths : isModified(bookings[id], booking, p)}, TRUE)
    THEN RejectErrors(op, id, NoRef, <<"Booking validation failed">>)
    ELSE
      Result(Response(op, id, NoRef, 200, "Booking updated successfully", "", <<>>),
           [bookings EXCEPT ![id] = booking], customers)

updateBooking(id, body) ==
  LET op == "updateBooking" IN
  IF ~BookingExists(id) THEN Reject(op, id, NoRef, 404, "Booking not found", "")
  ELSE
    LET errors == updateBookingErrors(bookings[id], body)
        booking == updateBookingApply(bookings[id], body)
    IN
    IF errors # <<>> THEN RejectErrors(op, id, NoRef, errors)
    ELSE IF ~saveOk(booking, {p \in bookingPaths : isModified(bookings[id], booking, p)}, TRUE)
    THEN RejectErrors(op, id, NoRef, <<"Booking validation failed">>)
    ELSE
      Result(Response(op, id, NoRef, 200, "Booking updated successfully", "", <<>>),
           [bookings EXCEPT ![id] = booking], customers)

(***************************************************************************)
(* Requests of the lifecycle specification.                                *)
(***************************************************************************)
EmptyBody == [f \in {} |-> 0]

BodyOk == [fullName |-> NameAn, phoneNumber |-> PhoneLocal, hotel |-> 1,
           bookingType |-> "Airport", arrivalTime |-> Time14,
           numberOfBags |-> 3 * Unit, deviceId |-> Dev1]

CreateBodies ==
  {BodyOk,
   [BodyOk EXCEPT !.numberOfBags = 0],
   [BodyOk EXCEPT !.numberOfBags = 6 * Unit],
   [BodyOk EXCEPT !.hotel = 2],
   [BodyOk EXCEPT !.hotel = 3]}

EditBodies == {[numberOfBags |-> 3 * Unit], [numberOfBags |-> 6 * Unit], EmptyBody}

FileCounts == {0, UploadLimit, MaxFiles}

DriverRefs == 1..(NumDrivers + 1)

AssignBodies == {[driverId |-> d] : d \in DriverRefs} \cup {EmptyBody}

StatusValues == StatusSet \cup {"archived"}

StatusBodies == {[status |-> st] : st \in StatusValues} \cup {EmptyBody}

NotesBodies == {[notes |-> <<>>], EmptyBody}

UpdateBodies ==
       {[status |-> st] : st \in StatusValues}
  \cup {[assignedDriver |-> d] : d \in {NoRef} \cup DriverRefs}
  \cup {[status |-> st, assignedDriver |-> d] : st \in StatusSet, d \in DriverIds}
  \cup {[numberOfBags |-> 6 * Unit], EmptyBody}

(***************************************************************************)
(* Serving a request: the handler's result replaces the collections.       *)
(***************************************************************************)
CreateBooking ==
  \E body \in CreateBodies :
    LET r == createBooking(body) IN
    /\ Len(r.bookings) <= MaxBookings
    /\ bookings' = r.bookings
    /\ customers' = r.customers
    /\ UNCHANGED <<drivers, hotels, io, inflight>>

EditBooking ==
  \E id \in BookingIds, body \in EditBodies :
    LET r == editBooking(id, body) IN
    /\ bookings' = r.bookings
    /\ customers' = r.customers
    /\ UNCHANGED <<drivers, hotels, io, inflight>>

CancelBooking ==
  \E id \in BookingIds :
    LET r == cancelBooking(id) IN
    /\ bookings' = r.bookings
    /\ customers' = r.customers
    /\ UNCHANGED <<drivers, hotels, io, inflight>>

PatchBookingStatus ==
  \E id \in BookingIds :
    LET r == updateBookingStatus(id) IN
    /\ bookings' = r.bookings
    /\ customers' = r.customers
    /\ UNCHANGED <<drivers, hotels, io, inflight>>

MarkPickedUp ==
  \E id \in BookingIds, d \in DriverIds :
    LET r == markAsPickedUp(id, d) IN
    /\ bookings' = r.bookings
    /\ customers' = r.customers
    /\ UNCHANGED <<drivers, hotels, io, inflight>>

MarkCompleted ==
  \E id \in BookingIds, d \in DriverIds, n \in FileCounts :
    LET r == markAsCompleted(id, d, n) IN
    /\ bookings' = r.bookings
    /\ customers' = r.customers
    /\ UNCHANGED <<drivers, hotels, io, inflight>>

ConfirmBooking ==
  \E id \in BookingIds, a \in AdminIds :
    LET r == confirmBooking(id, a) IN
    /\ bookings' = r.bookings
    /\ customers' = r.customers
    /\ UNCHANGED <<drivers, hotels, io, inflight>>

AssignDriver ==
  \E id \in BookingIds, body \in AssignBodies :
    LET r == assignDriver(id, body) IN
    /\ bookings' = r.bookings
    /\ customers' = r.customers
    /\ UNCHANGED <<drivers, hotels, io, inflight>>

UpdateStatus ==
  \E id \in BookingIds, body \in StatusBodies :
    LET r == adminUpdateBookingStatus(id, body) IN
    /\ bookings' = r.bookings
    /\ customers' = r.customers
    /\ UNCHANGED <<drivers, hotels, io, inflight>>

UpdateNotes ==
  \E id \in BookingIds, body \in NotesBodies :
    LET r == updateBookingNotes(id, body) IN
    /\ bookings' = r.bookings
    /\ customers' = r.customers
    /\ UNCHANGED <<drivers, hotels, io, inflight>>

UpdateBookingComprehensive ==
  \E id \in BookingIds, body \in UpdateBodies :
    LET r == updateBooking(id, body) IN
    /\ bookings' = r.bookings
    /\ customers' = r.customers
    /\ UNCHANGED <<drivers, hotels, io, inflight>>

ToggleDriverActive ==
  \E d \in DriverRefs :
    /\ drivers' = toggleDriverActive(d).drivers
    /\ UNCHANGED <<bookings, customers, hotels, io, inflight>>

Next ==
  \/ initializeWebSocket
  \/ CreateBooking
  \/ EditBooking
  \/ CancelBooking
  \/ PatchBookingStatus
  \/ MarkPickedUp
  \/ MarkCompleted
  \/ ConfirmBooking
  \/ AssignDriver
  \/ UpdateStatus
  \/ UpdateNotes
  \/ UpdateBookingComprehensive
  \/ ToggleDriverActive

Spec == Init /\ [][Next]_vars

TypeOK ==
  /\ Len(bookings) <= MaxBookings
  /\ \A i \in 1..Len(bookings) : bookings[i].status \in statusEnum
  /\ io \in BOOLEAN

(***************************************************************************)
(* Properties.  Stored is the set of stored booking ids; the requests      *)
(* quantified over are the ones Next serves.                               *)
(***************************************************************************)
Stored == 1..Len(bookings)

Authenticated(d) == protect(d).code = 200

\* uploads that pass upload.array('images', 5)
AcceptedUploads == {n \in FileCounts : n <= UploadLimit}

Refused(result, code) ==
  /\ result.resp.code = code
  /\ result.bookings = bookings
  /\ result.customers = customers
  /\ result.resp.emitted = <<>>

(***************************************************************************)
(* C1: for every stored booking and every authenticated driver d, if the   *)
(* booking's assignedDriver is null or another driver, then markAsPickedUp *)
(* and markAsCompleted by d answer 403 whatever the booking's status,      *)
(* leave the booking (status, isPickedUp, pickedUpAt, completedAt,         *)
(* completionImages and all the rest) as it was and publish no event.      *)
(***************************************************************************)
C1_OtherDriverForbidden ==
  \A id \in Stored, d \in DriverIds :
    (Authenticated(d) /\ bookings[id].assignedDriver # d) =>
      /\ Refused(markAsPickedUp(id, d), 403)
      /\ \A n \in AcceptedUploads : Refused(markAsCompleted(id, d, n), 403)

\* an in-progress booking of driver 1 with io up, on which driver 2, active,
\* is refused both operations
C1_Witness ==
  /\ Len(bookings) = 1 /\ io
  /\ bookings[1].status = "in_progress" /\ bookings[1].assignedDriver = 1
  /\ Authenticated(2)
  /\ markAsPickedUp(1, 2).resp.msg = "This booking is not assigned to you"
  /\ markAsCompleted(1, 2, 0).resp.msg = "This booking is not assigned to you"

(***************************************************************************)
(* C2: markAsPickedUp by the assigned driver on a booking whose status is  *)
(* not assigned answers 400, quotes the booking's current status and       *)
(* leaves the booking as it was; from status assigned it answers 200 and   *)
(* writes isPickedUp true, pickedUpAt and status in_progress and nothing   *)
(* else; and no markAsPickedUp request at all succeeds on a booking whose  *)
(* status is not assigned.                                                 *)
(***************************************************************************)
C2_PickedUpOnlyFromAssigned ==
  /\ \A id \in Stored, d \in DriverIds :
       (Authenticated(d) /\ bookings[id].assignedDriver = d) =>
         LET r == markAsPickedUp(id, d) IN
         IF bookings[id].status # "assigned"
         THEN Refused(r, 400) /\ r.resp.status = bookings[id].status
         ELSE /\ r.resp.code = 200
              /\ r.bookings = [bookings EXCEPT ![id] =
                   [bookings[id] EXCEPT !.isPickedUp = TRUE, !.pickedUpAt = Now,
                             !.status = "in_progress"]]
  /\ \A id \in BookingIds, d \in DriverIds :
       markAsPickedUp(id, d).resp.code = 200 =>
         id \in Stored /\ bookings[id].status = "assigned"

\* a booking picked up by its driver, on which the same driver's second
\* request is refused quoting in_progress
C2_Witness ==
  /\ Len(bookings) = 1
  /\ bookings[1].status = "in_progress" /\ bookings[1].isPickedUp
  /\ bookings[1].pickedUpAt = Now /\ bookings[1].assignedDriver = 1
  /\ Authenticated(1)
  /\ markAsPickedUp(1, 1).resp.code = 400
  /\ markAsPickedUp(1, 1).resp.status = "in_progress"

(***************************************************************************)
(* C3: a markAsCompleted request succeeds only on a stored booking whose   *)
(* status is in_progress and whose assignedDriver is the requesting        *)
(* driver; a success writes status completed, completedAt and as many      *)
(* image references as files were uploaded, between 0 and 5; by the        *)
(* assigned driver on any other status it answers 400 and changes nothing. *)
(***************************************************************************)
C3_CompletedOnlyFromInProgress ==
  /\ \A id \in BookingIds, d \in DriverIds, n \in FileCounts :
       markAsCompleted(id, d, n).resp.code = 200 =>
         /\ id \in Stored /\ bookings[id].status = "in_progress"
         /\ bookings[id].assignedDriver = d
  /\ \A id \in Stored, d \in DriverIds, n \in AcceptedUploads :
       (Authenticated(d) /\ bookings[id].assignedDriver = d) =>
         LET r == markAsCompleted(id, d, n) IN
         IF bookings[id].status # "in_progress"
         THEN Refused(r, 400)
         ELSE /\ r.resp.code = 200
              /\ r.bookings[id].status = "completed"
              /\ r.bookings[id].completedAt = Now
              /\ Len(r.bookings[id].completionImages) = n /\ n \in 0..5
              /\ r.bookings = [bookings EXCEPT ![id] =
                   [bookings[id] EXCEPT !.status = "completed", !.completedAt = Now,
                             !.completionImages = r.bookings[id].completionImages]]

\* a booking completed by its driver with five images, on which a second
\* completion is refused
C3_Witness ==
  /\ Len(bookings) = 1
  /\ bookings[1].status = "completed" /\ bookings[1].completedAt = Now
  /\ Len(bookings[1].completionImages) = 5
  /\ bookings[1].assignedDriver = 1 /\ Authenticated(1)
  /\ markAsCompleted(1, 1, 0).resp.code = 400

(***************************************************************************)
(* C4: confirmBooking on a stored booking whose status is not pending      *)
(* answers 400 and leaves the booking (status, confirmedBy, confirmedAt)   *)
(* as it was; on a pending booking it answers 200 and writes status        *)
(* confirmed, confirmedBy the acting admin and confirmedAt.                *)
(***************************************************************************)
C4_ConfirmOnlyPending ==
  \A id \in Stored, a \in AdminIds :
    LET r == confirmBooking(id, a) IN
    IF bookings[id].status # "pending"
    THEN Refused(r, 400) /\ r.resp.status = bookings[id].status
    ELSE /\ r.resp.code = 200
         /\ r.bookings = [bookings EXCEPT ![id] =
              [bookings[id] EXCEPT !.status = "confirmed", !.confirmedBy = a, !.confirmedAt = Now]]

\* a booking confirmed by admin 2, which admin 1 can not confirm again
C4_Witness ==
  /\ Len(bookings) = 1
  /\ bookings[1].status = "confirmed" /\ bookings[1].confirmedBy = 2
  /\ bookings[1].confirmedAt = Now
  /\ confirmBooking(1, 1).resp.code = 400
  /\ confirmBooking(1, 1).bookings[1].confirmedBy = 2

(***************************************************************************)
(* C5: cancelBooking and editBooking on a stored booking whose status is   *)
(* not pending answer 400 and change nothing; and while a booking's status *)
(* is cancelled, no request of the unauthenticated routes (createBooking,  *)
(* editBooking, cancelBooking, PATCH /booking/:id/status, aimed at any id) *)
(* leaves that booking with another status.                                *)
(***************************************************************************)
C5_CustomerSurfaceAfterPending ==
  \A id \in Stored :
    /\ bookings[id].status # "pending" =>
         /\ Refused(cancelBooking(id), 400)
         /\ \A body \in EditBodies : Refused(editBooking(id, body), 400)
    /\ bookings[id].status = "cancelled" =>
         /\ \A body \in CreateBodies :
              createBooking(body).bookings[id].status = "cancelled"
         /\ \A id2 \in BookingIds :
              /\ \A body \in EditBodies :
                   editBooking(id2, body).bookings[id].status = "cancelled"
              /\ cancelBooking(id2).bookings[id].status = "cancelled"
              /\ updateBookingStatus(id2).bookings[id].status = "cancelled"

\* a cancelled booking, on which a second cancellation and an edit are refused
C5_Witness ==
  /\ Len(bookings) = 1 /\ bookings[1].status = "cancelled"
  /\ cancelBooking(1).resp.code = 400 /\ cancelBooking(1).resp.status = "cancelled"
  /\ editBooking(1, [numberOfBags |-> 3 * Unit]).resp.code = 400
  /\ updateBookingStatus(1).resp.code = 200

(***************************************************************************)
(* C6: no request other than the two admin overrides (PATCH                *)
(* /admin/bookings/:id/status and PUT /admin/bookings/:id) leaves a stored *)
(* booking with a status earlier in the order pending, confirmed,          *)
(* assigned, in_progress, completed than the one it had, or takes it out   *)
(* of completed or cancelled.                                              *)
(***************************************************************************)
Rank(st) ==
  CASE st = "pending" -> 1 [] st = "confirmed" -> 2 [] st = "assigned" -> 3
    [] st = "in_progress" -> 4 [] st = "completed" -> 5 [] OTHER -> 6

Forward(from, to) ==
  /\ from \in {"completed", "cancelled"} => to = from
  /\ Rank(to) >= Rank(from) \/ to = "cancelled"

\* the results of every request that is not an admin override
OrdinaryResults ==
       {createBooking(body) : body \in CreateBodies}
  \cup {editBooking(id, body) : id \in BookingIds, body \in EditBodies}
  \cup {cancelBooking(id) : id \in BookingIds}
  \cup {updateBookingStatus(id) : id \in BookingIds}
  \cup {markAsPickedUp(id, d) : id \in BookingIds, d \in DriverIds}
  \cup {markAsCompleted(id, d, n) : id \in BookingIds, d \in DriverIds, n \in FileCounts}
  \cup {confirmBooking(id, a) : id \in BookingIds, a \in AdminIds}
  \cup {assignDriver(id, body) : id \in BookingIds, body \in AssignBodies}
  \cup {updateBookingNotes(id, body) : id \in BookingIds, body \in NotesBodies}

C6_OneDirectional ==
  \A id \in Stored, r \in OrdinaryResults :
    Forward(bookings[id].status, r.bookings[id].status)

C8_OnlyVerifiedAssigned ==
  \A id \in Stored :
    /\ \A body \in AssignBodies :
         (Has(body, "driverId") /\ assignDriver(id, body).resp.code = 200) =>
           /\ assignDriver(id, body).bookings[id].assignedDriver = body.driverId
           /\ drivers[body.driverId].isActive /\ drivers[body.driverId].isVerified
    /\ \A body \in UpdateBodies :
         (/\ Has(body, "assignedDriver") /\ body.assignedDriver # NoRef
          /\ updateBooking(id, body).resp.code = 200) =>
           /\ updateBooking(id, body).bookings[id].assignedDriver = body.assignedDriver
           /\ drivers[body.assignedDriver].isActive
           /\ drivers[body.assignedDriver].isVerified

C10_AutoAdvance ==
  \A id \in Stored, body \in UpdateBodies :
    (/\ Has(body, "assignedDriver") /\ body.assignedDriver # NoRef
     /\ bookings[id].status \in {"pending", "confirmed"}
     /\ updateBooking(id, body).resp.code = 200) =>
      updateBooking(id, body).bookings[id].status =
        IF ~Has(body, "status") \/ body.status \in {"pending", "confirmed"}
        THEN "assigned" ELSE body.status

\* C10 as stated: the resulting status is assigned if the request carried no
\* status and exactly the carried status otherwise
C10_AsStated ==
  \A id \in Stored, body \in UpdateBodies :
    (/\ Has(body, "assignedDriver") /\ body.assignedDriver # NoRef
     /\ bookings[id].status \in {"pending", "confirmed"}
     /\ updateBooking(id, body).resp.code = 200) =>
      updateBooking(id, body).bookings[id].status =
        IF Has(body, "status") THEN body.status ELSE "assigned"

\* a confirmed booking for which naming driver 1 together with status pending
\* yields assigned, and together with status cancelled yields cancelled
C10_Witness ==
  /\ Len(bookings) = 1 /\ bookings[1].status = "confirmed"
  /\ Authenticated(1)
  /\ updateBooking(1, [status |-> "pending", assignedDriver |-> 1]).resp.code = 200
  /\ updateBooking(1, [status |-> "pending", assignedDriver |-> 1]).bookings[1].status
       = "assigned"
  /\ updateBooking(1, [status |-> "cancelled", assignedDriver |-> 1]).bookings[1].status
       = "cancelled"
  /\ updateBooking(1, [assignedDriver |-> 1]).bookings[1].status = "assigned"

(***************************************************************************)
(* The intake specification: creation and editing of bookings with the     *)
(* customer upsert, the admin's comprehensive update, and the admin's      *)
(* hotel update.  Bookings stay pending here; the requests vary the fields *)
(* a booking is created with.                                              *)
(***************************************************************************)
MaxIntake == 1
MaxTotalBookings == 3

\* adminHotelController.js: updateHotel (findByIdAndUpdate with isActive)
updateHotel(h, body) ==
  IF ~HotelExists(h)
  THEN [resp |-> Response("updateHotel", h, NoRef, 404, "Hotel not found", "", <<>>),
        hotels |-> hotels]
  ELSE [resp |-> Response("updateHotel", h, NoRef, 200, "Hotel updated successfully", "", <<>>),
        hotels |-> IF Has(body, "isActive")
                   THEN [hotels EXCEPT ![h].isActive = body.isActive] ELSE hotels]

BodyOther == [fullName |-> NameAn, phoneNumber |-> PhoneLocal, hotel |-> 1,
              bookingType |-> "Other", pickupLocationAddress |-> Addr,
              numberOfBags |-> 3 * Unit, deviceId |-> Dev1]

\* bodies that meet every stated precondition of creation
IntakeValid ==
  {BodyOk,
   BodyOther,
   [BodyOk EXCEPT !.fullName = NameA],
   [BodyOk EXCEPT !.fullName = NameBo],
   [BodyOk EXCEPT !.phoneNumber = PhoneIntl],
   [BodyOk EXCEPT !.numberOfBags = 5 * Unit],
   [fullName |-> NameAn, phoneNumber |-> PhoneLocal, hotel |-> 1,
    bookingType |-> "Airport", arrivalTime |-> Time14, pickupLocationAddress |-> <<>>,
    numberOfBags |-> 3 * Unit, deviceId |-> Dev1]}

\* bodies that break one precondition; 5 * Unit + 5 is five and a half bags
IntakeInvalid ==
  {[BodyOk EXCEPT !.numberOfBags = 0],
   [BodyOk EXCEPT !.numberOfBags = 6 * Unit],
   [BodyOk EXCEPT !.numberOfBags = 5 * Unit + 5],
   [BodyOk EXCEPT !.hotel = 2],
   [BodyOk EXCEPT !.hotel = 3],
   [BodyOk EXCEPT !.bookingType = "Other"],
   [BodyOther EXCEPT !.bookingType = "Airport"]}

IntakeBodies == IntakeValid \cup IntakeInvalid

IntakeEdits ==
  {[numberOfBags |-> 0], [numberOfBags |-> 6 * Unit], [numberOfBags |-> 5 * Unit],
   [bookingType |-> "Other"],
   [bookingType |-> "Other", pickupLocationAddress |-> Addr],
   [hotel |-> 1], [hotel |-> 2], [hotel |-> 3],
   [fullName |-> NameA],
   [fullName |-> NameBo],
   [phoneNumber |-> PhoneOther],
   [phoneNumber |-> PhoneOther, fullName |-> NameBo],
   EmptyBody}

IntakeUpdates ==
  {[numberOfBags |-> 0], [numberOfBags |-> 6 * Unit], [numberOfBags |-> 1 * Unit],
   [numberOfBags |-> 5 * Unit + 5],
   [bookingType |-> "Other"],
   [bookingType |-> "Other", pickupLocationAddress |-> <<>>],
   [bookingType |-> "Other", pickupLocationAddress |-> Addr],
   [bookingType |-> "Airport"],
   [arrivalTime |-> <<>>]}

HotelBodies == {[isActive |-> TRUE], [isActive |-> FALSE]}

IntakeIds == 1..(MaxIntake + 1)

IntakeCreate ==
  \E body \in IntakeBodies :
    LET r == createBooking(body) IN
    /\ Len(r.bookings) <= MaxIntake
    /\ \A i \in 1..Len(r.customers) : r.customers[i].totalBookings <= MaxTotalBookings
    /\ bookings' = r.bookings
    /\ customers' = r.customers
    /\ UNCHANGED <<drivers, hotels, io, inflight>>

IntakeEdit ==
  \E id \in IntakeIds, body \in IntakeEdits :
    LET r == editBooking(id, body) IN
    /\ bookings' = r.bookings
    /\ customers' = r.customers
    /\ UNCHANGED <<drivers, hotels, io, inflight>>

IntakeUpdate ==
  \E id \in IntakeIds, body \in IntakeUpdates :
    LET r == updateBooking(id, body) IN
    /\ bookings' = r.bookings
    /\ customers' = r.customers
    /\ UNCHANGED <<drivers, hotels, io, inflight>>

UpdateHotel ==
  \E h \in 1..3, body \in HotelBodies :
    /\ hotels' = updateHotel(h, body).hotels
    /\ UNCHANGED <<bookings, customers, drivers, io, inflight>>

NextIntake ==
  \/ IntakeCreate
  \/ IntakeEdit
  \/ IntakeUpdate
  \/ UpdateHotel

SpecIntake == Init /\ [][NextIntake]_vars

(***************************************************************************)
(* C11: a createBooking request that meets every stated precondition (a    *)
(* non-empty name of any length, a phone in an accepted local or           *)
(* international format, an existing active hotel, one to five bags, the   *)
(* field its bookingType requires, a non-empty deviceId) answers 201 and   *)
(* appends one booking with status pending, isPickedUp false and no        *)
(* assigned driver.                                                        *)
(***************************************************************************)
MeetsPreconditions(body) ==
  /\ ~Blank(body, "fullName")
  /\ ~Blank(body, "phoneNumber") /\ isValidPhone(body.phoneNumber)
  /\ HotelExists(body.hotel) /\ hotels[body.hotel].isActive
  /\ body.numberOfBags \in {n * Unit : n \in 1..5}
  /\ body.bookingType \in bookingTypes
  /\ body.bookingType = "Airport" => ~Blank(body, "arrivalTime")
  /\ body.bookingType = "Other" => ~Blank(body, "pickupLocationAddress")
  /\ ~Blank(body, "deviceId")

C11_ValidCreateSucceeds ==
  \A body \in IntakeBodies :
    MeetsPreconditions(body) =>
      LET r == createBooking(body) IN
      /\ r.resp.code = 201
      /\ Len(r.bookings) = Len(bookings) + 1
      /\ r.bookings[Len(r.bookings)].status = "pending"
      /\ r.bookings[Len(r.bookings)].isPickedUp = FALSE
      /\ r.bookings[Len(r.bookings)].assignedDriver = NoRef

(***************************************************************************)
(* C12: whenever createBooking answers a failure, the bookings collection  *)
(* and the customers collection (every customer's totalBookings and        *)
(* lastBookingDate included) are what they were before the request.        *)
(***************************************************************************)
C12_FailedCreateWritesNothing ==
  \A body \in IntakeBodies :
    LET r == createBooking(body) IN
    r.resp.code # 201 => r.bookings = bookings /\ r.customers = customers

(***************************************************************************)
(* C13: every stored booking has between one and five bags, and            *)
(* createBooking, editBooking and updateBooking with a bag count of 0 or 6 *)
(* answer 400 and leave every booking and every customer as it was.        *)
(***************************************************************************)
BadBagCounts == {0, 6 * Unit}

C13_BagsInRange ==
  /\ \A id \in 1..Len(bookings) :
       bookings[id].numberOfBags >= 1 * Unit /\ bookings[id].numberOfBags <= 5 * Unit
  /\ \A n \in BadBagCounts :
       /\ \A body \in IntakeBodies : Refused(createBooking([body EXCEPT !.numberOfBags = n]), 400)
       /\ \A id \in 1..Len(bookings) :
            /\ Refused(editBooking(id, [numberOfBags |-> n]), 400)
            /\ Refused(updateBooking(id, [numberOfBags |-> n]), 400)

\* a stored booking with five bags and its customer, and each of the three
\* operations refusing six bags
C13_Witness ==
  /\ Len(bookings) = 1 /\ Len(customers) = 1
  /\ bookings[1].numberOfBags = 5 * Unit
  /\ createBooking([BodyOk EXCEPT !.numberOfBags = 6 * Unit]).resp.code = 400
  /\ editBooking(1, [numberOfBags |-> 6 * Unit]).resp.code = 400
  /\ updateBooking(1, [numberOfBags |-> 0]).resp.code = 400

(***************************************************************************)
(* C14: every stored Airport booking has a non-empty arrivalTime and every *)
(* stored Other booking a non-empty pickupLocationAddress, also after      *)
(* editBooking or updateBooking changed the bookingType.                   *)
(***************************************************************************)
C14_ConditionalField ==
  \A id \in 1..Len(bookings) :
    /\ bookings[id].bookingType = "Airport" => bookings[id].arrivalTime # <<>>
    /\ bookings[id].bookingType = "Other" => bookings[id].pickupLocationAddress # <<>>

(***************************************************************************)
(* C17: a createBooking that answers 201, and an editBooking that answers  *)
(* 200 on a request naming another hotel than the stored one, name a hotel *)
(* that exists and is active in the state the request is served in; for a  *)
(* request that passes validation, a hotel id that resolves to nothing is  *)
(* answered 404 and an inactive hotel 400, and no booking is written or    *)
(* changed.                                                                *)
(***************************************************************************)
HotelRefs == 1..3

ActiveHotel(h) == HotelExists(h) /\ hotels[h].isActive

HotelOutcome(r, ok, h) ==
  /\ r.resp.code = ok => ActiveHotel(h)
  /\ ~HotelExists(h) => Refused(r, 404)
  /\ HotelExists(h) /\ ~hotels[h].isActive => Refused(r, 400)

C17_ActiveHotelOnly ==
  /\ \A body \in IntakeValid, h \in HotelRefs :
       HotelOutcome(createBooking([body EXCEPT !.hotel = h]), 201, h)
  /\ \A id \in 1..Len(bookings) :
       \A h \in HotelRefs \ {bookings[id].hotel} :
         validateBooking(merge(bookings[id], [hotel |-> h])) = <<>> =>
           HotelOutcome(editBooking(id, [hotel |-> h]), 200, h)

\* a booking moved to hotel 2 by an edit, hotel 1 since deactivated: the
\* edit back to hotel 1 and a creation at hotel 1 are refused, hotel 3 is
\* not found
C17_Witness ==
  /\ Len(bookings) = 1 /\ bookings[1].hotel = 2
  /\ ~hotels[1].isActive /\ hotels[2].isActive
  /\ editBooking(1, [hotel |-> 1]).resp.code = 400
  /\ editBooking(1, [hotel |-> 3]).resp.code = 404
  /\ createBooking(BodyOk).resp.code = 400
  /\ createBooking([BodyOk EXCEPT !.hotel = 2]).resp.code = 201

(***************************************************************************)
(* The overlapping-requests specification.  A handler runs up to its       *)
(* first awaited read in one step and each awaited write in a further      *)
(* step; between the steps of one handler the steps of another may run.    *)
(* A slot of inflight holds what the handler has read.  Each step is a     *)
(* function of the collections and the slot to the response sent (code 0:  *)
(* none yet), the collections left behind and the slot's next content.     *)
(***************************************************************************)
MaxRaceBookings == 2

Step(response, bks, custs, next) ==
  [resp |-> response, bookings |-> bks, customers |-> custs, next |-> next]

\* the handler goes on: nothing is sent, nothing is written by this step
Continue(op, next) == Step(Response(op, NoRef, NoRef, 0, "", "", <<>>), bookings, customers, next)

\* the handler answers and ends
Finish(result) == Step(result.resp, result.bookings, result.customers, Idle)

\* createBooking, lines 10-38: validation, the hotel checks and
\* Customer.findOne; the handler then holds the customer document it found
createBookingFind(body) ==
  LET op == "createBooking"
      errors == validateBooking(body)
      i == findCustomer(body.phoneNumber)
  IN
  IF errors # <<>> THEN Finish(RejectErrors(op, NoRef, NoRef, errors))
  ELSE IF ~HotelExists(body.hotel)
  THEN Finish(Reject(op, NoRef, NoRef, 404, "Hotel not found", ""))
  ELSE IF ~hotels[body.hotel].isActive
  THEN Finish(Reject(op, NoRef, NoRef, 400, "Hotel is not active", ""))
  ELSE Continue(op, [op |-> op, pc |-> "saveCustomer", body |-> body, found |-> i,
                     customer |-> IF i # 0 THEN <<customers[i]>> ELSE <<>>])

\* createBooking, lines 40-59: customer.save() of the document held, which
\* writes the paths the handler assigned; totalBookings is the value read
\* plus one
createBookingSaveCustomer(req) ==
  LET op == "createBooking"
      body == req.body
  IN
  IF req.found # 0
  THEN LET read == req.customer[1]
           customer == [read EXCEPT
                          !.fullName = Trim(body.fullName),
                          !.email = IF Field(body, "email") # <<>> THEN emailSetter(body.email)
                                    ELSE read.email,
                          !.totalBookings = read.totalBookings + 1,
                          !.lastBookingDate = Now]
           stored == [customers[req.found] EXCEPT
                          !.fullName = customer.fullName,
                          !.email = IF Field(body, "email") # <<>> THEN customer.email
                                    ELSE customers[req.found].email,
                          !.totalBookings = customer.totalBookings,
                          !.lastBookingDate = Now]
       IN  IF ~customerSaveOk(customer, {"fullName", "email", "totalBookings",
                                         "lastBookingDate"})
           THEN Finish(RejectErrors(op, NoRef, NoRef, <<"Customer validation failed">>))
           ELSE Step(Response(op, NoRef, NoRef, 0, "", "", <<>>), bookings,
                     [customers EXCEPT ![req.found] = stored],
                     [req EXCEPT !.pc = "saveBooking"])
  ELSE LET customer == [fullName |-> Trim(body.fullName),
                        phoneNumber |-> Trim(body.phoneNumber),
                        email |-> emailSetter(Field(body, "email")),
                        totalBookings |-> 1,
                        lastBookingDate |-> Now]
       IN  IF ~customerSaveOk(customer, customerPaths)
           THEN Finish(RejectErrors(op, NoRef, NoRef, <<"Customer validation failed">>))
           ELSE Step(Response(op, NoRef, NoRef, 0, "", "", <<>>), bookings,
                     Append(customers, customer), [req EXCEPT !.pc = "saveBooking"])

\* createBooking, lines 61-90: booking.save() and the 201 answer
createBookingSaveBooking(req) ==
  LET op == "createBooking"
      booking == newBooking(req.body)
  IN
  IF ~saveOk(booking, bookingPaths, FALSE)
  THEN Finish(Result(ValidationError(op, NoRef, NoRef, <<"Booking validation failed">>),
                     bookings, customers))
  ELSE Finish(Result(Response(op, Len(bookings) + 1, NoRef, 201, "", "", <<>>),
                     Append(bookings, booking), customers))

\* Customer.validateCustomer (models/Customer.js)
validateCustomer(data) ==
     Err(Falsy(data, "fullName") \/ Len(Trim(Field(data, "fullName"))) < 2,
         "Full name must be at least 2 characters")
  \o (IF Blank(data, "phoneNumber")
      THEN <<"Phone number is required">>
      ELSE Err(~customerPhoneRegex(data.phoneNumber), "Invalid phone number format"))
  \o Err(~Blank(data, "email") /\ ~emailRegex(data.email), "Invalid email format")

\* adminCustomerController.js createCustomer, up to Customer.findOne
createCustomerFind(body) ==
  LET op == "createCustomer"
      errors == validateCustomer(body)
  IN
  IF errors # <<>> THEN Finish(RejectErrors(op, NoRef, NoRef, errors))
  ELSE IF findCustomer(body.phoneNumber) # 0
  THEN Finish(Reject(op, NoRef, NoRef, 400,
                     "Customer with this phone number already exists", ""))
  ELSE Continue(op, [op |-> op, pc |-> "save", body |-> body])

\* createCustomer: customer.save() and the 201 answer.  The phoneNumber
\* index is not unique, so the write is never refused as a duplicate.
createCustomerSave(req) ==
  LET op == "createCustomer"
      customer == [fullName |-> Trim(req.body.fullName),
                   phoneNumber |-> Trim(req.body.phoneNumber),
                   email |-> emailSetter(Field(req.body, "email")),
                   totalBookings |-> 0,
                   lastBookingDate |-> Null]
  IN
  IF ~customerSaveOk(customer, customerPaths)
  THEN Finish(RejectErrors(op, NoRef, NoRef, <<"Customer validation failed">>))
  ELSE Finish(Result(Response(op, NoRef, NoRef, 201, "Customer created successfully", "", <<>>),
                     bookings, Append(customers, customer)))

\* cancelBooking, lines 676-696: Booking.findById and the status test
cancelBookingFind(id) ==
  LET op == "cancelBooking" IN
  IF ~BookingExists(id) THEN Finish(Reject(op, id, NoRef, 404, "Booking not found", ""))
  ELSE IF bookings[id].status # "pending"
  THEN Finish(Reject(op, id, NoRef, 400,
                     "Cannot cancel booking. Only pending bookings can be cancelled.",
                     bookings[id].status))
  ELSE Continue(op, [op |-> op, pc |-> "save", id |-> id, booking |-> bookings[id]])

\* cancelBooking, lines 699-710: booking.save() of the document held writes
\* the path the handler assigned, whatever the stored document has become
cancelBookingSave(req) ==
  LET op == "cancelBooking"
      booking == [req.booking EXCEPT !.status = "cancelled"]
  IN
  IF ~saveOk(booking, {"status"}, FALSE)
  THEN Finish(Reject(op, req.id, NoRef, 500, "Failed to cancel booking", ""))
  ELSE Finish(Result(Response(op, req.id, NoRef, 200, "Booking cancelled successfully",
                              "", <<>>),
                     [bookings EXCEPT ![req.id] =
                        [bookings[req.id] EXCEPT !.status = "cancelled"]],
                     customers))

\* confirmBooking, lines 182-198: Booking.findById and the status test
confirmBookingFind(id, a) ==
  LET op == "confirmBooking" IN
  IF ~BookingExists(id) THEN Finish(Reject(op, id, a, 404, "Booking not found", ""))
  ELSE IF bookings[id].status # "pending"
  THEN Finish(Reject(op, id, a, 400, "Booking is already", bookings[id].status))
  ELSE Continue(op, [op |-> op, pc |-> "save", id |-> id, admin |-> a,
                     booking |-> bookings[id]])

\* confirmBooking's save with an optimistic check of the status it read
confirmBookingSaveVersioned(req) ==
  IF bookings[req.id].status # req.booking.status
  THEN Finish(Reject("confirmBooking", req.id, req.admin, 409, "Booking was modified", ""))
  ELSE Finish(Result(Response("confirmBooking", req.id, req.admin, 200,
                              "Booking confirmed successfully", "", <<>>),
                     [bookings EXCEPT ![req.id] =
                        [bookings[req.id] EXCEPT !.status = "confirmed",
                                                 !.confirmedBy = req.admin,
                                                 !.confirmedAt = Now]],
                     customers))

\* confirmBooking, lines 200-215: booking.save() of the document held
confirmBookingSave(req) ==
  LET op == "confirmBooking"
      booking == [req.booking EXCEPT !.status = "confirmed",
                                     !.confirmedBy = req.admin,
                                     !.confirmedAt = Now]
  IN
  IF ~saveOk(booking, {"status", "confirmedBy", "confirmedAt"}, FALSE)
  THEN Finish(Reject(op, req.id, req.admin, 500, "Failed to confirm booking", ""))
  ELSE Finish(Result(Response(op, req.id, req.admin, 200, "Booking confirmed successfully",
                              "", <<>>),
                     [bookings EXCEPT ![req.id] =
                        [bookings[req.id] EXCEPT !.status = "confirmed",
                                                 !.confirmedBy = req.admin,
                                                 !.confirmedAt = Now]],
                     customers))

\* markAsPickedUp, lines 351-380: protect, Booking.findById and the tests of
\* the document read
markAsPickedUpFind(id, d) ==
  LET op == "markAsPickedUp"
      auth == protect(d)
  IN
  IF auth.code # 200 THEN Finish(Reject(op, id, d, auth.code, auth.msg, ""))
  ELSE IF ~BookingExists(id) THEN Finish(Reject(op, id, d, 404, "Booking not found", ""))
  ELSE IF notAssignedTo(bookings[id], d)
  THEN Finish(Reject(op, id, d, 403, "This booking is not assigned to you", ""))
  ELSE IF bookings[id].status # "assigned"
  THEN Finish(Reject(op, id, d, 400, "Cannot mark as picked up. Current status",
                     bookings[id].status))
  ELSE Continue(op, [op |-> op, pc |-> "update", id |-> id, driver |-> d,
                     booking |-> bookings[id]])

\* a conditional update: the write applies only while the stored booking is
\* still assigned to the driver
markAsPickedUpUpdateGuarded(req) ==
  IF bookings[req.id].assignedDriver # req.driver
  THEN Finish(Reject("markAsPickedUp", req.id, req.driver, 409, "Booking was modified", ""))
  ELSE
    LET updatedBooking == [bookings[req.id] EXCEPT !.isPickedUp = TRUE,
                                                   !.pickedUpAt = Now,
                                                   !.status = "in_progress"]
    IN
    Finish(Result(Response("markAsPickedUp", req.id, req.driver, 200,
                           "Booking marked as picked up successfully", "",
                           emitBookingPickedUp(updatedBooking, req.id)),
                  [bookings EXCEPT ![req.id] = updatedBooking], customers))

\* markAsPickedUp, lines 382-406: Booking.findByIdAndUpdate by id alone, the
\* event and the 200 answer
markAsPickedUpUpdate(req) ==
  LET op == "markAsPickedUp"
      updatedBooking == [bookings[req.id] EXCEPT !.isPickedUp = TRUE,
                                                 !.pickedUpAt = Now,
                                                 !.status = "in_progress"]
  IN
  Finish(Result(Response(op, req.id, req.driver, 200,
                         "Booking marked as picked up successfully", "",
                         emitBookingPickedUp(updatedBooking, req.id)),
                [bookings EXCEPT ![req.id] = updatedBooking], customers))

\* markAsCompleted, lines 430-468: upload, protect, Booking.findById and the
\* tests of the document read
markAsCompletedFind(id, d, n) ==
  LET op == "markAsCompleted"
      auth == protect(d)
  IN
  IF auth.code # 200 THEN Finish(Reject(op, id, d, auth.code, auth.msg, ""))
  ELSE IF n > UploadLimit THEN Finish(Reject(op, id, d, 500, "Internal server error", ""))
  ELSE IF ~BookingExists(id) THEN Finish(Reject(op, id, d, 404, "Booking not found", ""))
  ELSE IF notAssignedTo(bookings[id], d)
  THEN Finish(Reject(op, id, d, 403, "This booking is not assigned to you", ""))
  ELSE IF bookings[id].status # "in_progress"
  THEN Finish(Reject(op, id, d, 400,
                     "Cannot mark as completed. Please mark as picked up first",
                     bookings[id].status))
  ELSE Continue(op, [op |-> op, pc |-> "update", id |-> id, driver |-> d, files |-> n,
                     booking |-> bookings[id]])

\* a conditional update: the write applies only while the stored booking is
\* still in progress
markAsCompletedUpdateOnce(req) ==
  IF bookings[req.id].status # "in_progress"
  THEN Finish(Reject("markAsCompleted", req.id, req.driver, 400,
                     "Cannot mark as completed. Please mark as picked up first",
                     bookings[req.id].status))
  ELSE
    LET updatedBooking == [bookings[req.id] EXCEPT
                             !.status = "completed",
                             !.completedAt = Now,
                             !.completionImages = completionImagePaths(req.files)]
    IN
    Finish(Result(Response("markAsCompleted", req.id, req.driver, 200,
                           "Booking marked as completed successfully", "",
                           emitBookingCompleted(updatedBooking, req.id)),
                  [bookings EXCEPT ![req.id] = updatedBooking], customers))

\* markAsCompleted, lines 470-494: Booking.findByIdAndUpdate by id alone,
\* the event and the 200 answer
markAsCompletedUpdate(req) ==
  LET op == "markAsCompleted"
      updatedBooking == [bookings[req.id] EXCEPT
                           !.status = "completed",
                           !.completedAt = Now,
                           !.completionImages = completionImagePaths(req.files)]
  IN
  Finish(Result(Response(op, req.id, req.driver, 200,
                         "Booking marked as completed successfully", "",
                         emitBookingCompleted(updatedBooking, req.id)),
                [bookings EXCEPT ![req.id] = updatedBooking], customers))

\* assignDriver, lines 239-273: the driver checks and Booking.findById
assignDriverFind(id, body) ==
  LET op == "assignDriver" IN
  IF ~Has(body, "driverId") \/ body.driverId = NoRef
  THEN Finish(Reject(op, id, NoRef, 400, "Driver ID is required", ""))
  ELSE IF ~DriverExists(body.driverId)
  THEN Finish(Reject(op, id, NoRef, 404, "Driver not found", ""))
  ELSE IF ~drivers[body.driverId].isActive
  THEN Finish(Reject(op, id, NoRef, 400, "Driver is not active", ""))
  ELSE IF ~BookingExists(id) THEN Finish(Reject(op, id, NoRef, 404, "Booking not found", ""))
  ELSE Continue(op, [op |-> op, pc |-> "save", id |-> id, driverId |-> body.driverId,
                     booking |-> bookings[id]])

\* assignDriver, lines 275-290: booking.save() of the document held
assignDriverSave(req) ==
  LET op == "assignDriver"
      booking == [req.booking EXCEPT !.assignedDriver = req.driverId, !.status = "assigned"]
  IN
  IF ~saveOk(booking, {"assignedDriver", "status"}, FALSE)
  THEN Finish(Reject(op, req.id, NoRef, 500, "Failed to assign driver", ""))
  ELSE Finish(Result(Response(op, req.id, NoRef, 200, "Driver assigned successfully",
                              "", <<>>),
                     [bookings EXCEPT ![req.id] =
                        [bookings[req.id] EXCEPT !.assignedDriver = req.driverId,
                                                 !.status = "assigned"]],
                     customers))

\* the step a handler in flight takes next
Resume(req) ==
  CASE req.op = "createBooking" /\ req.pc = "saveCustomer" -> createBookingSaveCustomer(req)
    [] req.op = "createBooking" /\ req.pc = "saveBooking" -> createBookingSaveBooking(req)
    [] req.op = "createCustomer" -> createCustomerSave(req)
    [] req.op = "cancelBooking" -> cancelBookingSave(req)
    [] req.op = "confirmBooking" -> confirmBookingSave(req)
    [] req.op = "assignDriver" -> assignDriverSave(req)
    [] req.op = "markAsPickedUp" -> markAsPickedUpUpdate(req)
    [] req.op = "markAsCompleted" -> markAsCompletedUpdate(req)

RaceBodies ==
  {BodyOk,
   [BodyOk EXCEPT !.fullName = NameBo],
   [fullName |-> NameAn, phoneNumber |-> PhoneLocal, email |-> MailOk, hotel |-> 1,
    bookingType |-> "Airport", arrivalTime |-> Time14,
    numberOfBags |-> 3 * Unit, deviceId |-> Dev1]}

CustomerBodies == {[fullName |-> NameAn, phoneNumber |-> PhoneLocal]}

RaceIds == 1..MaxRaceBookings

InFlight(op) == {s \in Slots : inflight[s].op = op}

BeginCreateBooking ==
  \E s \in Slots, body \in RaceBodies :
    LET r == createBookingFind(body) IN
    /\ inflight[s] = Idle
    /\ Len(bookings) + Cardinality(InFlight("createBooking")) < MaxRaceBookings
    /\ inflight' = [inflight EXCEPT ![s] = r.next]
    /\ bookings' = r.bookings
    /\ customers' = r.customers
    /\ UNCHANGED <<drivers, hotels, io>>

BeginCreateCustomer ==
  \E s \in Slots, body \in CustomerBodies :
    LET r == createCustomerFind(body) IN
    /\ inflight[s] = Idle
    /\ inflight' = [inflight EXCEPT ![s] = r.next]
    /\ bookings' = r.bookings
    /\ customers' = r.customers
    /\ UNCHANGED <<drivers, hotels, io>>

BeginCancelBooking ==
  \E s \in Slots, id \in RaceIds :
    LET r == cancelBookingFind(id) IN
    /\ inflight[s] = Idle
    /\ inflight' = [inflight EXCEPT ![s] = r.next]
    /\ bookings' = r.bookings
    /\ customers' = r.customers
    /\ UNCHANGED <<drivers, hotels, io>>

BeginConfirmBooking ==
  \E s \in Slots, id \in RaceIds, a \in AdminIds :
    LET r == confirmBookingFind(id, a) IN
    /\ inflight[s] = Idle
    /\ inflight' = [inflight EXCEPT ![s] = r.next]
    /\ bookings' = r.bookings
    /\ customers' = r.customers
    /\ UNCHANGED <<drivers, hotels, io>>

ResumeRequest ==
  \E s \in Slots :
    /\ inflight[s] # Idle
    /\ LET r == Resume(inflight[s]) IN
       /\ inflight' = [inflight EXCEPT ![s] = r.next]
       /\ bookings' = r.bookings
       /\ customers' = r.customers
    /\ UNCHANGED <<drivers, hotels, io>>

NextRace ==
  \/ BeginCreateBooking
  \/ BeginCreateCustomer
  \/ BeginCancelBooking
  \/ BeginConfirmBooking
  \/ ResumeRequest

SpecRace == Init /\ [][NextRace]_vars

\* createBooking requests alone, overlapping
NextCreateRace ==
  \/ BeginCreateBooking
  \/ ResumeRequest

SpecCreateRace == Init /\ [][NextCreateRace]_vars

(***************************************************************************)
(* C15: once n >= 1 createBooking requests for one phone number have       *)
(* answered 201 and none is in flight (no other operation writing the      *)
(* customer), exactly one Customer record has that phone number and its    *)
(* totalBookings is n.  Every 201 appends one booking with the phone, so n *)
(* is the number of stored bookings with that phone.                       *)
(***************************************************************************)
BookingsOf(phone) == {id \in 1..Len(bookings) : bookings[id].phoneNumber = phone}

CustomersOf(phone) == {i \in 1..Len(customers) : customers[i].phoneNumber = phone}

C15_OneCustomerCountsBookings ==
  InFlight("createBooking") = {} /\ BookingsOf(PhoneLocal) # {} =>
    /\ Cardinality(CustomersOf(PhoneLocal)) = 1
    /\ \A i \in CustomersOf(PhoneLocal) :
         customers[i].totalBookings = Cardinality(BookingsOf(PhoneLocal))

(***************************************************************************)
(* C16: in every reachable state, whatever the interleaving of overlapping *)
(* createBooking and admin createCustomer requests, no two Customer        *)
(* records have the same phone number.                                     *)
(***************************************************************************)
C16_OneCustomerPerPhone ==
  \A i, j \in 1..Len(customers) :
    customers[i].phoneNumber = customers[j].phoneNumber => i = j

(***************************************************************************)
(* C18: every markAsPickedUp that answers 200 publishes exactly one        *)
(* booking:picked-up event, and every markAsCompleted that answers 200     *)
(* exactly one booking:completed event, carrying the booking's id and the  *)
(* status just persisted (in_progress, respectively completed).            *)
(***************************************************************************)
C18_SuccessPublishesOneEvent ==
  \A id \in BookingIds, d \in DriverIds :
    /\ LET r == markAsPickedUp(id, d) IN
       r.resp.code = 200 =>
         /\ r.bookings[id].status = "in_progress"
         /\ r.resp.emitted = <<[name |-> "booking:picked-up", bookingId |-> id,
                                status |-> "in_progress"]>>
    /\ \A n \in FileCounts :
         LET r == markAsCompleted(id, d, n) IN
         r.resp.code = 200 =>
           /\ r.bookings[id].status = "completed"
           /\ r.resp.emitted = <<[name |-> "booking:completed", bookingId |-> id,
                                  status |-> "completed"]>>

(***************************************************************************)
(* C19: a cancelBooking or confirmBooking in flight has read status        *)
(* pending, and its write answers 200 whatever another request has written *)
(* to the booking in the meantime: no conflict is reported, and the        *)
(* booking's status after the write is the one this request wrote.         *)
(***************************************************************************)
StatusWriters == InFlight("cancelBooking") \cup InFlight("confirmBooking")

Written(req) == IF req.op = "cancelBooking" THEN "cancelled" ELSE "confirmed"

C19_LastWriteWins ==
  \A s \in StatusWriters :
    LET req == inflight[s]
        r == Resume(req)
    IN
    /\ req.booking.status = "pending"
    /\ r.resp.code = 200
    /\ r.bookings[req.id].status = Written(req)
    /\ \A id \in 1..Len(bookings) : id # req.id => r.bookings[id] = bookings[id]

\* a confirmBooking that read pending is still in flight after an
\* overlapping cancelBooking has answered 200 and stored cancelled; its
\* write answers 200 too and leaves the booking confirmed
C19_Witness ==
  \E s \in InFlight("confirmBooking") :
    /\ bookings[inflight[s].id].status = "cancelled"
    /\ Resume(inflight[s]).resp.code = 200
    /\ Resume(inflight[s]).bookings[inflight[s].id].status = "confirmed"

(***************************************************************************)
(* C20: while the Socket.IO relay is not initialised, markAsPickedUp by    *)
(* the assigned driver on an assigned booking and markAsCompleted on an    *)
(* in_progress one still answer 200 and persist their mutation, and no     *)
(* event is delivered or kept for later; in every state one request        *)
(* publishes at most one event.                                            *)
(***************************************************************************)
C20_FireAndForget ==
  \A id \in Stored, d \in DriverIds :
    /\ Len(markAsPickedUp(id, d).resp.emitted) <= 1
    /\ \A n \in FileCounts : Len(markAsCompleted(id, d, n).resp.emitted) <= 1
    /\ (~io /\ Authenticated(d) /\ bookings[id].assignedDriver = d) =>
         /\ bookings[id].status = "assigned" =>
              LET r == markAsPickedUp(id, d) IN
              /\ r.resp.code = 200
              /\ r.bookings[id].status = "in_progress" /\ r.bookings[id].pickedUpAt = Now
              /\ r.resp.emitted = <<>>
         /\ bookings[id].status = "in_progress" =>
              \A n \in AcceptedUploads :
                LET r == markAsCompleted(id, d, n) IN
                /\ r.resp.code = 200
                /\ r.bookings[id].status = "completed" /\ r.bookings[id].completedAt = Now
                /\ r.resp.emitted = <<>>

\* the relay was never initialised; the pickup has been persisted all the
\* same and the completion is accepted without an event
C20_Witness ==
  /\ ~io
  /\ Len(bookings) = 1 /\ bookings[1].status = "in_progress"
  /\ bookings[1].pickedUpAt = Now /\ bookings[1].assignedDriver = 1
  /\ markAsCompleted(1, 1, 0).resp.code = 200
  /\ markAsCompleted(1, 1, 0).resp.emitted = <<>>

(***************************************************************************)
(* C21: an updateBooking request on a stored booking is answered 200 or    *)
(* 400; when one of its validations fails (phone format, bookingType enum, *)
(* conditional field, bag range, status enum, driver missing or inactive)  *)
(* or booking.save() rejects the document, it is answered 400 and every    *)
(* stored booking is what it was, also when the request carried a valid    *)
(* fullName beside the offending field.                                    *)
(***************************************************************************)
\* a valid new name together with one field that a validation refuses
\* (5 * Unit + 5, five and a half bags, is refused by the save)
InvalidUpdates ==
  {[fullName |-> NameBo, phoneNumber |-> PhoneBad],
   [fullName |-> NameBo, bookingType |-> "Bus"],
   [fullName |-> NameBo, bookingType |-> "Other"],
   [fullName |-> NameBo, numberOfBags |-> 6 * Unit],
   [fullName |-> NameBo, numberOfBags |-> 5 * Unit + 5],
   [fullName |-> NameBo, status |-> "archived"],
   [fullName |-> NameBo, assignedDriver |-> NumDrivers + 1]}

\* the same beside a driver, who may be inactive
DriverUpdates == {[fullName |-> NameBo, assignedDriver |-> d] : d \in DriverIds}

C21_NoPartialUpdate ==
  \A id \in Stored :
    /\ \A body \in InvalidUpdates : Refused(updateBooking(id, body), 400)
    /\ \A body \in DriverUpdates :
         ~drivers[body.assignedDriver].isActive => Refused(updateBooking(id, body), 400)
    /\ \A body \in InvalidUpdates \cup DriverUpdates \cup UpdateBodies :
         LET r == updateBooking(id, body) IN
         /\ r.resp.code \in {200, 400}
         /\ r.resp.code = 400 => r.bookings = bookings /\ r.customers = customers

\* a stored booking and an inactive driver: the update that names the
\* driver beside a new name is refused, while the new name alone is taken
C21_Witness ==
  /\ Len(bookings) = 1 /\ bookings[1].fullName = NameAn
  /\ ~drivers[2].isActive
  /\ updateBooking(1, [fullName |-> NameBo, assignedDriver |-> 2]).resp.code = 400
  /\ updateBooking(1, [fullName |-> NameBo]).resp.code = 200
  /\ updateBooking(1, [fullName |-> NameBo]).bookings[1].fullName = NameBo

(***************************************************************************)
(* C22: after an editBooking that answers 200 and changes the booking's    *)
(* phone number, a Customer record with the new phone exists, carrying the *)
(* supplied name if one was supplied; after one that leaves the phone and  *)
(* supplies a name, the existing Customer of the booking's phone carries   *)
(* that name.                                                              *)
(***************************************************************************)
ChangesPhone(id, body) ==
  Has(body, "phoneNumber") /\ Trim(body.phoneNumber) # bookings[id].phoneNumber

C22_CustomerFollowsEdit ==
  \A id \in 1..Len(bookings), body \in IntakeEdits :
    LET r == editBooking(id, body) IN
    r.resp.code = 200 =>
      /\ ChangesPhone(id, body) =>
           \E i \in 1..Len(r.customers) :
             /\ r.customers[i].phoneNumber = Trim(body.phoneNumber)
             /\ Has(body, "fullName") => r.customers[i].fullName = Trim(body.fullName)
      /\ (~ChangesPhone(id, body) /\ Has(body, "fullName")) =>
           \A i \in 1..Len(customers) :
             i = findCustomer(bookings[id].phoneNumber) =>
               r.customers[i].fullName = Trim(body.fullName)

(***************************************************************************)
(* C23: a stored booking has completion images only if markAsCompleted     *)
(* has succeeded on it (which is what sets completedAt), and no request    *)
(* other than markAsCompleted changes a stored booking's completionImages  *)
(* or completedAt, or creates a booking that has them.                     *)
(***************************************************************************)
\* the results of every request but markAsCompleted
NonCompletingResults ==
       {createBooking(body) : body \in CreateBodies}
  \cup {editBooking(id, body) : id \in BookingIds, body \in EditBodies}
  \cup {cancelBooking(id) : id \in BookingIds}
  \cup {updateBookingStatus(id) : id \in BookingIds}
  \cup {markAsPickedUp(id, d) : id \in BookingIds, d \in DriverIds}
  \cup {confirmBooking(id, a) : id \in BookingIds, a \in AdminIds}
  \cup {assignDriver(id, body) : id \in BookingIds, body \in AssignBodies}
  \cup {adminUpdateBookingStatus(id, body) : id \in BookingIds, body \in StatusBodies}
  \cup {updateBookingNotes(id, body) : id \in BookingIds, body \in NotesBodies}
  \cup {updateBooking(id, body) : id \in BookingIds, body \in UpdateBodies}

BeginAssignDriver ==
  \E s \in Slots, id \in BookingIds, body \in AssignBodies :
    LET r == assignDriverFind(id, body) IN
    /\ inflight[s] = Idle
    /\ inflight' = [inflight EXCEPT ![s] = r.next]
    /\ bookings' = r.bookings
    /\ customers' = r.customers
    /\ UNCHANGED <<drivers, hotels, io>>

BeginMarkPickedUp ==
  \E s \in Slots, id \in BookingIds, d \in DriverIds :
    LET r == markAsPickedUpFind(id, d) IN
    /\ inflight[s] = Idle
    /\ inflight' = [inflight EXCEPT ![s] = r.next]
    /\ bookings' = r.bookings
    /\ customers' = r.customers
    /\ UNCHANGED <<drivers, hotels, io>>

BeginMarkCompleted ==
  \E s \in Slots, id \in BookingIds, d \in DriverIds, n \in FileCounts :
    LET r == markAsCompletedFind(id, d, n) IN
    /\ inflight[s] = Idle
    /\ inflight' = [inflight EXCEPT ![s] = r.next]
    /\ bookings' = r.bookings
    /\ customers' = r.customers
    /\ UNCHANGED <<drivers, hotels, io>>

NextDriverRace ==
  \/ CreateBooking
  \/ initializeWebSocket
  \/ BeginAssignDriver
  \/ BeginMarkPickedUp
  \/ BeginMarkCompleted
  \/ ResumeRequest

SpecDriverRace == Init /\ [][NextDriverRace]_vars

(***************************************************************************)
(* C24: a driver's markAsPickedUp or markAsCompleted tests the booking it  *)
(* read and then updates by id alone.  As stated, the write is applied     *)
(* only if the stored assignedDriver still equals that driver at the       *)
(* moment of the write (C24_WriteOnlyWhileAssigned).  What the handlers    *)
(* do: once the tests passed on the document read, the write is applied    *)
(* and answered 200 whatever the stored assignedDriver is by then; it      *)
(* sets the status and the timestamp and leaves the new assignedDriver in  *)
(* place (C24_WriteAfterReassignment).                                     *)
(***************************************************************************)
DriverWriters == InFlight("markAsPickedUp") \cup InFlight("markAsCompleted")

DriverWritten(req) == IF req.op = "markAsPickedUp" THEN "in_progress" ELSE "completed"

Reassigned(req) == bookings[req.id].assignedDriver # req.driver

C24_WriteOnlyWhileAssigned ==
  \A s \in DriverWriters :
    LET req == inflight[s] IN
    Resume(req).bookings # bookings => ~Reassigned(req)

C24_WriteAfterReassignment ==
  \A s \in DriverWriters :
    LET req == inflight[s]
        r == Resume(req)
    IN
    /\ req.booking.assignedDriver = req.driver
    /\ Reassigned(req) =>
         /\ r.resp.code = 200
         /\ r.bookings[req.id].status = DriverWritten(req)
         /\ r.bookings[req.id].assignedDriver = bookings[req.id].assignedDriver
         /\ req.op = "markAsPickedUp" =>
              r.bookings[req.id].isPickedUp /\ r.bookings[req.id].pickedUpAt = Now
         /\ req.op = "markAsCompleted" =>
              /\ r.bookings[req.id].completedAt = Now
              /\ r.bookings[req.id].completionImages = completionImagePaths(req.files)

\* driver 1 read its assigned booking; while its update is pending an admin
\* has reassigned the booking to driver 2; the update still answers 200 and
\* moves the booking of driver 2 to in_progress
C24_Witness ==
  \E s \in InFlight("markAsPickedUp") :
    LET req == inflight[s] IN
    /\ bookings[req.id].assignedDriver \in DriverIds \ {req.driver}
    /\ bookings[req.id].status = "assigned"
    /\ Resume(req).resp.code = 200
    /\ Resume(req).bookings[req.id].status = "in_progress"
    /\ Resume(req).bookings[req.id].assignedDriver # req.driver

(***************************************************************************)
(* C25: two markAsPickedUp (or two markAsCompleted) requests of the        *)
(* assigned driver for one booking overlap.  As stated, at most one of     *)
(* them succeeds and the transition is written and published once          *)
(* (C25_AtMostOneSucceeds).  What the handlers do: each request whose      *)
(* tests passed on the document it read answers 200, writes the timestamp  *)
(* (and, for a completion, replaces completionImages by its own files) and *)
(* publishes its own event when the relay is initialised, although the     *)
(* other request has already made the transition (C25_BothSucceed).        *)
(***************************************************************************)
AlreadyWritten(req) ==
  IF req.op = "markAsPickedUp"
  THEN bookings[req.id].isPickedUp /\ bookings[req.id].pickedUpAt = Now
  ELSE bookings[req.id].status = "completed" /\ bookings[req.id].completedAt = Now

C25_AtMostOneSucceeds ==
  \A s \in DriverWriters :
    AlreadyWritten(inflight[s]) =>
      /\ Resume(inflight[s]).resp.code # 200
      /\ Resume(inflight[s]).resp.emitted = <<>>
      /\ Resume(inflight[s]).bookings = bookings

C25_BothSucceed ==
  \A s \in DriverWriters :
    LET req == inflight[s]
        r == Resume(req)
    IN
    AlreadyWritten(req) =>
      /\ r.resp.code = 200
      /\ Len(r.resp.emitted) = (IF io THEN 1 ELSE 0)
      /\ \A i \in 1..Len(r.resp.emitted) : r.resp.emitted[i].bookingId = req.id
      /\ r.bookings[req.id].status = DriverWritten(req)
      /\ req.op = "markAsPickedUp" => r.bookings[req.id].pickedUpAt = Now
      /\ req.op = "markAsCompleted" =>
           /\ r.bookings[req.id].completedAt = Now
           /\ r.bookings[req.id].completionImages = completionImagePaths(req.files)

\* two completions of the assigned driver read the booking in progress; the
\* first has answered 200 and stored its images; the second is pending with
\* other files and the relay is up: it answers 200 too, publishes a second
\* booking:completed and replaces the stored images
C25_Witness ==
  \E s \in InFlight("markAsCompleted") :
    LET req == inflight[s] IN
    /\ io
    /\ bookings[req.id].status = "completed"
    /\ bookings[req.id].assignedDriver = req.driver
    /\ bookings[req.id].completionImages # completionImagePaths(req.files)
    /\ Resume(req).resp.code = 200
    /\ Len(Resume(req).resp.emitted) = 1
    /\ Resume(req).bookings[req.id].completionImages = completionImagePaths(req.files)

(***************************************************************************)
(* C26: in every reachable state a booking whose status is assigned or     *)
(* in_progress has a non-null assignedDriver that refers to an existing    *)
(* Driver record.                                                          *)
(***************************************************************************)
C26_ActiveStatusHasDriver ==
  \A id \in Stored :
    bookings[id].status \in {"assigned", "in_progress"} =>
      /\ bookings[id].assignedDriver # NoRef
      /\ DriverExists(bookings[id].assignedDriver)

(***************************************************************************)
(* C27: in every reachable state a booking whose status is completed has   *)
(* isPickedUp true, whichever sequence of driver and admin operations led  *)
(* to completed.                                                           *)
(***************************************************************************)
C27_CompletedIsPickedUp ==
  \A id \in Stored : bookings[id].status = "completed" => bookings[id].isPickedUp

(***************************************************************************)
(* C28: for every booking, a booking:completed event is published only     *)
(* after a booking:picked-up event for the same booking has been           *)
(* published.  booking:picked-up is published by markAsPickedUp alone,     *)
(* after the update that sets pickedUpAt, and no handler clears pickedUpAt *)
(* (C30); a booking whose pickedUpAt is null has therefore had no          *)
(* booking:picked-up event, and the claim requires that no markAsCompleted *)
(* publishes booking:completed for such a booking.                         *)
(***************************************************************************)
PublishesCompleted(result, id) ==
  \E i \in 1..Len(result.resp.emitted) :
    /\ result.resp.emitted[i].name = "booking:completed"
    /\ result.resp.emitted[i].bookingId = id

lifecycleFields ==
  {"status", "isPickedUp", "pickedUpAt", "assignedDriver", "completedAt", "completionImages"}

SameLifecycle(result, id) ==
  \A f \in lifecycleFields : result.bookings[id][f] = bookings[id][f]

UncredentialedResults(id) ==
       {createBooking(body) : body \in CreateBodies}
  \cup {editBooking(id, body) : body \in EditBodies}
  \cup {updateBookingStatus(id)}
  \cup {markAsPickedUp(id, d) : d \in {x \in DriverIds : ~Authenticated(x)}}
  \cup {markAsCompleted(id, d, n) : d \in {x \in DriverIds : ~Authenticated(x)},
                                    n \in FileCounts}

C29_NoChangeWithoutCredential ==
  \A id \in Stored :
    /\ \A result \in UncredentialedResults(id) : SameLifecycle(result, id)
    /\ LET result == cancelBooking(id) IN
       \/ SameLifecycle(result, id)
       \/ /\ bookings[id].status = "pending"
          /\ result.bookings[id] = [bookings[id] EXCEPT !.status = "cancelled"]

(***************************************************************************)
(* C30: no operation changes a stored booking's isPickedUp from true to    *)
(* false, and none resets confirmedAt, pickedUpAt or completedAt to null   *)
(* once set, even when an admin override moves the status back to an       *)
(* earlier state; no operation removes a stored booking either.            *)
(***************************************************************************)
timestamps == {"confirmedAt", "pickedUpAt", "completedAt"}

KeepsHistory(old, new) ==
  /\ old.isPickedUp => new.isPickedUp
  /\ \A f \in timestamps : old[f] # Null => new[f] # Null

====
